---------------------------- MODULE Spec2Model ----------------------------
(***************************************************************************)
(* A model of the SortMeDown / BangBang engine (src/bangbang.py): the      *)
(* title cleaner, the classifier, the conflict validator, the file         *)
(* manager, the sorter (sort_item, process_source_directory, the empty     *)
(* directory sweep) and the directory watcher.                             *)
(*                                                                         *)
(* Names (file stems, folder names, titles, search terms) are sequences of *)
(* tokens: the pieces a name falls into at its separators ('.', '_', ' '). *)
(* The regular expressions of TitleCleaner are modelled on tokens.         *)
(* A directory path is a sequence of names; a file is a record             *)
(* [dir, stem, ext, id], where id stands for the file's content.           *)
(***************************************************************************)
EXTENDS Integers, Sequences, FiniteSets, TLC

(***************************************************************************)
(* Small helpers                                                           *)
(***************************************************************************)
SetMin(S) == CHOOSE x \in S : \A y \in S : x <= y
SetMax(S) == CHOOSE x \in S : \A y \in S : x >= y

\* The elements of sequence s that are not in drop, in order.
RECURSIVE KeepToks(_, _)
KeepToks(s, drop) ==
    IF s = << >> THEN << >>
    ELSE IF Head(s) \in drop THEN KeepToks(Tail(s), drop)
    ELSE << Head(s) >> \o KeepToks(Tail(s), drop)

\* The element of a one-element set
The(S) == CHOOSE x \in S : TRUE

IsPrefix(p, q) == Len(p) <= Len(q) /\ SubSeq(q, 1, Len(p)) = p

(***************************************************************************)
(* State                                                                   *)
(***************************************************************************)
VARIABLES
    cfg,        \* the Config object shared by every engine instance
    prov,       \* what each metadata provider answers, per search title
    fs,         \* the filesystem: [files, dirs]
    stats,      \* MediaSorter.stats of the engine instance
    dryRun,     \* MediaSorter.dry_run of the engine instance
    os,         \* what the operating system refuses (env of FileManager)
    op,         \* the engine operation that ran last, with its inputs
    nOps,       \* how many operations have run
    pc,         \* where the thread running start_watch_mode stands
    stop_event, \* MediaSorter.stop_event: is the flag set
    watcher,    \* the DirectoryWatcher of start_watch_mode, or None
    mtime,      \* st_mtime of the source directory
    todo,       \* what is left of media_files in the running pass
    hist,       \* history of the watch run: what has been requested and begun
    thr         \* the engine instances that run concurrently, each with its step

\* The variables of a watch run and those of one engine instance
watchVars == <<pc, stop_event, watcher, mtime, todo, hist>>
vars == <<cfg, prov, fs, stats, dryRun, os, op, nOps, watchVars, thr>>

(***************************************************************************)
(* Tokens                                                                  *)
(***************************************************************************)
\* datetime.now().year as read by extract_year
CurrentYear == 2026

\* Tokens made of exactly four digits, bare or wrapped in ( ) or [ ], with
\* the number they spell.
FourDigitToks ==
    [t \in {"2019", "2021", "(2019)", "(2021)", "1080", "(1080)"} |->
        CASE t \in {"2019", "(2019)"} -> 2019
          [] t \in {"2021", "(2021)"} -> 2021
          [] OTHER -> 1080]

\* The digits of a four-digit token: the group (\d{4}) of the regex.
DigitsOf(t) ==
    CASE t \in {"2019", "(2019)"} -> "2019"
      [] t \in {"2021", "(2021)"} -> "2021"
      [] OTHER -> "1080"

\* Tokens matching [Ss]\d{1,2}[Ee]\d{1,2}, with their season number.
SeasonEpisodeToks == [t \in {"S02E05", "S01E02", "S00E01"} |->
    CASE t = "S02E05" -> 2 [] t = "S01E02" -> 1 [] OTHER -> 0]

\* Tokens matching [Ss]\d{1,2} only (no episode part).
SeasonOnlyToks == [t \in {"S03"} |-> 3]

ResolutionToks == {"1080p", "720p"}
SourceToks == {"WEBRip", "BluRay"}
CodecToks == {"x264-GROUP", "x265"}
BracketToks == {"[GRP]"}

\* Config.CUSTOM_STRINGS_TO_REMOVE
CUSTOM_STRINGS_TO_REMOVE == {"FRENCH", "TRUEFRENCH", "VOSTFR", "MULTI", "SUBFRENCH"}

(***************************************************************************)
(* TitleCleaner                                                            *)
(***************************************************************************)
\* One alternative of METADATA_BREAKPOINT_PATTERN matches at token i.  Every
\* alternative starts with \s, so the token must be preceded by a separator:
\* it is never the first token of the name.
IsBreakpointAt(name, i) ==
    /\ i > 1
    /\ \/ name[i] \in DOMAIN FourDigitToks
       \/ name[i] \in DOMAIN SeasonEpisodeToks
       \/ name[i] \in DOMAIN SeasonOnlyToks
       \/ name[i] = "Season" /\ i < Len(name) /\ name[i + 1] \in {"01", "02", "03"}
       \/ name[i] \in ResolutionToks
       \/ name[i] \in SourceToks
       \/ name[i] \in CodecToks

\* clean_for_search: separators to spaces, junk tokens to spaces, truncate at
\* the earliest breakpoint, drop [..] groups, collapse whitespace, strip.
clean_for_search(name, custom_strings_to_remove) ==
    LET brk == {i \in 1..Len(name) :
                   /\ name[i] \notin custom_strings_to_remove
                   /\ IsBreakpointAt(name, i)}
        cut == IF brk = {} THEN Len(name) ELSE SetMin(brk) - 1
    IN KeepToks(SubSeq(name, 1, cut), custom_strings_to_remove \cup BracketToks)

\* extract_season_info: S..E.., then Season N, then S.. ; the first PATTERN
\* that matches anywhere wins.  -1 is None.
extract_season_info(name) ==
    LET se == {i \in 1..Len(name) : name[i] \in DOMAIN SeasonEpisodeToks}
        sw == {i \in 1..Len(name) - 1 :
                  name[i] = "Season" /\ name[i + 1] \in {"01", "02", "03"}}
        so == {i \in 1..Len(name) : name[i] \in DOMAIN SeasonOnlyToks}
    IN IF se # {} THEN SeasonEpisodeToks[name[SetMin(se)]]
       ELSE IF sw # {} THEN
            (CASE name[SetMin(sw) + 1] = "01" -> 1
               [] name[SetMin(sw) + 1] = "02" -> 2
               [] OTHER -> 3)
       ELSE IF so # {} THEN SeasonOnlyToks[name[SetMin(so)]]
       ELSE -1

\* extract_year: the last 4-digit token in [1900, current_year + 2]; "" is None.
extract_year(name) ==
    LET plausible == {i \in 1..Len(name) :
                         /\ name[i] \in DOMAIN FourDigitToks
                         /\ 1900 <= FourDigitToks[name[i]]
                         /\ FourDigitToks[name[i]] <= CurrentYear + 2}
    IN IF plausible = {} THEN "" ELSE DigitsOf(name[SetMax(plausible)])

(***************************************************************************)
(* MediaType and MediaInfo                                                 *)
(***************************************************************************)
MOVIE == "movie"
TV_SERIES == "series"
ANIME_MOVIE == "anime_movie"
ANIME_SERIES == "anime_series"
UNKNOWN == "unknown"
MediaType == {MOVIE, TV_SERIES, ANIME_MOVIE, ANIME_SERIES, UNKNOWN}

\* A MediaInfo.  title: a name, << >> for None or ""; year: a string, "" for
\* None or "".
MediaInfo(title, year, media_type, language, genre) ==
    [title |-> title, year |-> year, media_type |-> media_type,
     language |-> language, genre |-> genre]

\* The characters <>:"/\|?* are stripped from the title: a token made of
\* such characters only disappears.
IllegalToks == {"???"}

\* f" ({year})" as one token of the folder name
ParenYear(year) ==
    CASE year = "2019" -> "(2019)"
      [] year = "2021" -> "(2021)"
      [] year = "1080" -> "(1080)"
      [] year = "None" -> "(None)"
      [] year = "{}" -> "({})"
      [] OTHER -> "(2019-2021)"

\* MediaInfo.get_folder_name
get_folder_name(info) ==
    IF info.title = << >> THEN << "Unknown" >>
    ELSE LET folder_title == KeepToks(info.title, IllegalToks)
         IN IF info.year # "" THEN folder_title \o << ParenYear(info.year) >>
            ELSE folder_title

(***************************************************************************)
(* APIClient: the three provider clients.  prov.<provider>[title] is what  *)
(* the provider's HTTP exchange yields for a search title:                 *)
(*   st = "none"   the provider found nothing                              *)
(*   st = "error"  requests.RequestException (timeout, transport error,    *)
(*                 non-2xx status)                                         *)
(*   st = "crash"  an exception that is no RequestException (a response    *)
(*                 whose shape the client does not expect)                 *)
(*   st = "data"   a record, in the provider's own schema                  *)
(***************************************************************************)
NoData == [st |-> "none"]

Lookup(table, title) == IF title \in DOMAIN table THEN table[title] ELSE NoData

\* query_omdb / query_tmdb / query_anilist: the record, or None (st "none");
\* RequestException is caught and gives None.
query(provider, title) ==
    LET r == Lookup(prov[provider], title)
    IN IF r.st = "error" THEN NoData ELSE r

query_omdb(title) == query("omdb", title)
query_tmdb(title) == query("tmdb", title)
query_anilist(title) == query("anilist", title)

KeyValid(c, provider) ==
    IF provider = "omdb" THEN c.OMDB_KEY_SET ELSE c.TMDB_KEY_SET

(***************************************************************************)
(* MediaClassifier                                                         *)
(***************************************************************************)
\* str(data.get("seasonYear", "")): a number prints as its digits, a JSON
\* null prints as "None", a missing key gives "".
StrSeasonYear(y) ==
    CASE y = "null" -> "None"
      [] y = "missing" -> ""
      [] OTHER -> y

classify_from_anilist(data) ==
    LET m_type == IF data.format = "MOVIE" THEN ANIME_MOVIE
                  ELSE IF data.format \in {"TV", "TV_SHORT", "ONA", "OVA", "SPECIAL"}
                       THEN ANIME_SERIES
                  ELSE UNKNOWN
        title == IF data.english # << >> THEN data.english ELSE data.romaji
    IN MediaInfo(title, StrSeasonYear(data.seasonYear), m_type, "Japanese", data.genres)

\* (Year or "").split(<the three characters a-circumflex, euro, left quote>)[0]:
\* the separator written in the source never occurs in a provider's year, a
\* range "2019-2021" (with an en dash) included, so the year comes back whole.
SplitYearRange(year) == year

classify_from_omdb(data) ==
    LET m_type == IF data.Type = "movie" THEN MOVIE
                  ELSE IF data.Type \in {"series", "tv series"} THEN TV_SERIES
                  ELSE UNKNOWN
    IN MediaInfo(data.Title, SplitYearRange(data.Year), m_type, data.Language, data.Genre)

\* (release_date or first_air_date or "{}").split('-')[0]
DateYear(d) ==
    CASE d = "2019-05-01" -> "2019"
      [] d = "2021-05-01" -> "2021"
      [] OTHER -> d

classify_from_tmdb(data) ==
    LET is_movie == data.has_title
        m_type == IF is_movie THEN MOVIE ELSE TV_SERIES
        title == IF is_movie THEN data.title ELSE data.name
        date == IF data.release_date # "" THEN data.release_date
                ELSE IF data.first_air_date # "" THEN data.first_air_date
                ELSE "{}"
    IN MediaInfo(title, DateYear(date), m_type, data.english_name, data.genres)

classify_from_main_api(data, provider) ==
    IF provider = "omdb" THEN classify_from_omdb(data) ELSE classify_from_tmdb(data)

\* "animation" in Genre.lower() / "japan" in Country.lower()
IsAnimation(genre) == genre \in {"Animation", "Animation, Action"}
IsJapan(country) == country \in {"Japan", "USA, Japan"}

\* The provider calls of one classify_media call, in order, as far as the
\* call gets: each entry is <<provider, status>>.
QueriesOf(c, clean_name) ==
    LET primary == c.API_PROVIDER
        secondary == IF primary = "omdb" THEN "tmdb" ELSE "omdb"
        ani == IF c.ANIME_MOVIES_ENABLED \/ c.ANIME_SERIES_ENABLED
               THEN << <<"anilist", Lookup(prov.anilist, clean_name).st>> >>
               ELSE << >>
        aniCrash == ani # << >> /\ ani[1][2] = "crash"
        main == IF aniCrash THEN << >>
                ELSE << <<primary, Lookup(prov[primary], clean_name).st>> >>
        mainNone == main # << >> /\ main[1][2] \in {"none", "error"}
        sec == IF mainNone /\ KeyValid(c, secondary)
               THEN << <<secondary, Lookup(prov[secondary], clean_name).st>> >>
               ELSE << >>
    IN IF clean_name = << >> THEN << >> ELSE ani \o main \o sec

\* classify_media raises: a provider call it makes raises something that is
\* not a RequestException.
classify_raises(c, name) ==
    LET q == QueriesOf(c, clean_for_search(name, CUSTOM_STRINGS_TO_REMOVE))
    IN \E i \in 1..Len(q) : q[i][2] = "crash"

\* classify_media, when no provider call raises.
classify_media(c, name, custom_strings) ==
    LET clean_name == clean_for_search(name, custom_strings)
        unknown == MediaInfo(name, "", UNKNOWN, "", "")
        anilist_data == IF c.ANIME_MOVIES_ENABLED \/ c.ANIME_SERIES_ENABLED
                        THEN query_anilist(clean_name) ELSE NoData
        primary_provider == c.API_PROVIDER
        secondary_provider == IF primary_provider = "omdb" THEN "tmdb" ELSE "omdb"
        is_secondary_available == KeyValid(c, secondary_provider)
        first == query(primary_provider, clean_name)
        second == IF first.st = "none" /\ is_secondary_available
                  THEN query(secondary_provider, clean_name) ELSE NoData
        main_api_data == IF first.st = "data" THEN first ELSE second
        provider == IF first.st # "data" /\ second.st = "data"
                    THEN secondary_provider ELSE primary_provider
    IN IF clean_name = << >> THEN unknown
       ELSE IF anilist_data.st = "data" THEN
            IF /\ main_api_data.st = "data"
               /\ provider = "omdb"
               /\ ~IsAnimation(main_api_data.Genre)
               /\ ~IsJapan(main_api_data.Country)
            THEN classify_from_omdb(main_api_data)
            ELSE classify_from_anilist(anilist_data)
       ELSE IF main_api_data.st = "data"
            THEN classify_from_main_api(main_api_data, provider)
       ELSE unknown

(***************************************************************************)
(* The filesystem.  fs.files is a set of records [dir, stem, ext, id]: no  *)
(* two of them share a path <<dir, stem, ext>>.  fs.dirs is the set of     *)
(* directory paths that exist.  A path that is not set is NoPath.          *)
(***************************************************************************)
NoPath == << >>

\* Config.SUPPORTED_EXTENSIONS / SIDECAR_EXTENSIONS (those the model uses)
SUPPORTED_EXTENSIONS == {".mkv", ".mp4"}
SIDECAR_EXTENSIONS == {".srt", ".sub", ".nfo"}

PathOf(f) == [dir |-> f.dir, stem |-> f.stem, ext |-> f.ext]
Paths(files) == {PathOf(f) : f \in files}
Exists(files, p) == p \in Paths(files)
FileAt(files, p) == CHOOSE f \in files : PathOf(f) = p
Ids(files) == {f.id : f \in files}
InDir(p, d) == [p EXCEPT !.dir = d]

\* Path.mkdir(parents=True): the directory and every missing parent
Ancestors(d) == {SubSeq(d, 1, k) : k \in 1..Len(d)}

\* A set as a sequence, in the order the directory listing gives it.
RECURSIVE SetToSeq(_)
SetToSeq(S) ==
    IF S = {} THEN << >>
    ELSE LET x == CHOOSE y \in S : TRUE IN << x >> \o SetToSeq(S \ {x})

\* shutil.move(src, target) of a file onto a path that is not a directory:
\* os.rename, which replaces whatever file is at the target (where rename
\* refuses, the fallback copy2 + unlink replaces it too).
shutil_move(files, p, target) ==
    LET f == FileAt(files, p)
        occupant == {g \in files : PathOf(g) = target}
    IN (files \ ({f} \cup occupant)) \cup {[f EXCEPT !.dir = target.dir]}

(***************************************************************************)
(* FileManager.  env is what the operating system does during the call:    *)
(*   env.badDirs   directories under which no directory can be created     *)
(*   env.badMoves  ids of files whose move (or removal) raises, which the  *)
(*                 file manager catches                                    *)
(*   env.badScan   ids of files whose directory cannot be listed: iterdir  *)
(*                 raises in _find_sidecar_files                           *)
(*   env.badStat   ids of files whose resolve() raises in move_file_group, *)
(*                 outside its try block                                   *)
(***************************************************************************)
NoFailure == [badDirs |-> {}, badMoves |-> {}, badScan |-> {}, badStat |-> {}]

\* _find_sidecar_files
find_sidecar_files(files, primary_file) ==
    SetToSeq({p \in Paths(files) :
                 /\ p # primary_file
                 /\ p.dir = primary_file.dir
                 /\ p.stem = primary_file.stem
                 /\ p.ext \in SIDECAR_EXTENSIONS})

\* ensure_dir: [ok, dirs]
ensure_dir(dirs, p, dry_run, env) ==
    IF p = NoPath THEN [ok |-> FALSE, dirs |-> dirs]
    ELSE IF p \in dirs THEN [ok |-> TRUE, dirs |-> dirs]
    ELSE IF dry_run THEN [ok |-> TRUE, dirs |-> dirs]
    ELSE IF \E b \in env.badDirs : IsPrefix(b, p) THEN [ok |-> FALSE, dirs |-> dirs]
    ELSE [ok |-> TRUE, dirs |-> dirs \cup Ancestors(p)]

\* MoveOne without its test that the target exists
MoveOne_NoExistsTest(files, file_to_move, dest_dir, dry_run, env) ==
    LET target == InDir(file_to_move, dest_dir)
        same == [files |-> files, ok |-> TRUE, raised |-> FALSE]
    IN IF file_to_move = target THEN same
       ELSE IF dry_run THEN same
       ELSE IF \/ ~Exists(files, file_to_move)
               \/ FileAt(files, file_to_move).id \in env.badMoves
            THEN [same EXCEPT !.ok = FALSE]
       ELSE [same EXCEPT !.files = shutil_move(files, file_to_move, target)]

\* MoveOne without its dry-run test
MoveOne_NoDryRunTest(files, file_to_move, dest_dir, dry_run, env) ==
    LET target == InDir(file_to_move, dest_dir)
        same == [files |-> files, ok |-> TRUE, raised |-> FALSE]
    IN IF file_to_move = target THEN same
       ELSE IF Exists(files, target) THEN same
       ELSE IF \/ ~Exists(files, file_to_move)
               \/ FileAt(files, file_to_move).id \in env.badMoves
            THEN [same EXCEPT !.ok = FALSE]
       ELSE [same EXCEPT !.files = shutil_move(files, file_to_move, target)]

\* One turn of the loop of move_file_group, for file_to_move:
\* [files, ok, raised]; ok is FALSE when the move raised and was caught,
\* raised is TRUE when resolve() raised, which nothing here catches.
MoveOne(files, file_to_move, dest_dir, dry_run, env) ==
    LET target == InDir(file_to_move, dest_dir)
        same == [files |-> files, ok |-> TRUE, raised |-> FALSE]
    IN IF /\ Exists(files, file_to_move)
          /\ FileAt(files, file_to_move).id \in env.badStat
       THEN [same EXCEPT !.raised = TRUE]
       ELSE IF file_to_move = target THEN same
       ELSE IF Exists(files, target) THEN same
       ELSE IF dry_run THEN same
       ELSE IF \/ ~Exists(files, file_to_move)
               \/ FileAt(files, file_to_move).id \in env.badMoves
            THEN [same EXCEPT !.ok = FALSE]
       ELSE [same EXCEPT !.files = shutil_move(files, file_to_move, target)]

RECURSIVE MoveLoop(_, _, _, _, _, _)
MoveLoop(files, group, dest_dir, dry_run, env, all_moved_successfully) ==
    IF group = << >>
    THEN [files |-> files, ok |-> all_moved_successfully, raised |-> FALSE]
    ELSE LET r == MoveOne(files, Head(group), dest_dir, dry_run, env)
         IN IF r.raised THEN r
            ELSE MoveLoop(r.files, Tail(group), dest_dir, dry_run, env,
                          all_moved_successfully /\ r.ok)

\* move_file_group: [fs, ok, raised]
move_file_group(f, file_group, dest_dir, dry_run, env) ==
    LET e == ensure_dir(f.dirs, dest_dir, dry_run, env)
        r == MoveLoop(f.files, file_group, dest_dir, dry_run, env, TRUE)
    IN IF ~e.ok THEN [fs |-> f, ok |-> FALSE, raised |-> FALSE]
       ELSE [fs |-> [files |-> r.files, dirs |-> e.dirs], ok |-> r.ok,
             raised |-> r.raised]

\* delete_file_group: the filesystem after it
RECURSIVE DeleteLoop(_, _, _)
DeleteLoop(files, group, env) ==
    IF group = << >> THEN files
    ELSE LET p == Head(group)
             gone == {g \in files : PathOf(g) = p /\ g.id \notin env.badMoves}
         IN DeleteLoop(files \ gone, Tail(group), env)

delete_file_group(f, primary_file, dry_run, env) ==
    LET file_group == << primary_file >> \o find_sidecar_files(f.files, primary_file)
    IN IF dry_run THEN f
       ELSE [f EXCEPT !.files = DeleteLoop(f.files, file_group, env)]

(***************************************************************************)
(* MediaSorter: the validator and sort_item                                *)
(***************************************************************************)
StatKeys == {"processed", "movies", "tv", "anime_movies", "anime_series",
             "split_lang_movies", "unknown", "errors"}
\* self.stats of a new MediaSorter: the empty dict
EmptyStats == [k \in {} |-> 0]
\* self.stats as process_source_directory resets it
ZeroStats == [k \in StatKeys |-> 0]
Stat(s, k) == IF k \in DOMAIN s THEN s[k] ELSE 0

\* "japanese" in language.lower()
HasJapanese(language) == language \in {"Japanese", "English, Japanese"}

\* {lang.strip().lower() for lang in (language or "").split(',')}
LanguageSet(language) ==
    CASE language = "French" -> {"french"}
      [] language = "English" -> {"english"}
      [] language = "Japanese" -> {"japanese"}
      [] language = "English, Japanese" -> {"english", "japanese"}
      [] language = "English, French" -> {"english", "french"}
      [] OTHER -> {""}

\* f"Season {season:02d}" as a folder name
SeasonFolder(season) ==
    << "Season", CASE season = 0 -> "00" [] season = 1 -> "01"
                   [] season = 2 -> "02" [] OTHER -> "03" >>

\* base / name: joining an empty name leaves the path as it is
Join(base, name) == IF name = << >> THEN base ELSE Append(base, name)

\* _get_mismatched_path
get_mismatched_path(c) ==
    IF c.MISMATCHED_DIR # NoPath THEN c.MISMATCHED_DIR
    ELSE IF c.SOURCE_DIR # NoPath THEN Append(c.SOURCE_DIR, << "_Mismatched" >>)
    ELSE NoPath

\* _validate_api_result without its year comparison
validate_api_result_NoYearTest(file_path, successful_search_term, api_info) ==
    LET is_series_in_filename == extract_season_info(file_path.stem) # -1
        is_movie_in_api == api_info.media_type \in {MOVIE, ANIME_MOVIE}
        new_type == IF HasJapanese(api_info.language) THEN ANIME_SERIES ELSE TV_SERIES
    IN IF is_series_in_filename /\ is_movie_in_api
       THEN [api_info EXCEPT !.media_type = new_type] ELSE api_info

\* _validate_api_result without its season-marker override
validate_api_result_NoSeriesOverride(file_path, successful_search_term, api_info) ==
    LET year_in_filename == IF extract_year(file_path.stem) # ""
                            THEN extract_year(file_path.stem)
                            ELSE extract_year(successful_search_term)
    IN IF year_in_filename # "" /\ api_info.year # "" /\ year_in_filename # api_info.year
       THEN [api_info EXCEPT
                !.media_type = UNKNOWN,
                !.title = clean_for_search(successful_search_term, CUSTOM_STRINGS_TO_REMOVE),
                !.year = year_in_filename]
       ELSE api_info

\* _validate_api_result
validate_api_result(file_path, successful_search_term, api_info) ==
    LET is_series_in_filename == extract_season_info(file_path.stem) # -1
        is_movie_in_api == api_info.media_type \in {MOVIE, ANIME_MOVIE}
        new_type == IF HasJapanese(api_info.language) THEN ANIME_SERIES ELSE TV_SERIES
        info1 == IF is_series_in_filename /\ is_movie_in_api
                 THEN [api_info EXCEPT !.media_type = new_type] ELSE api_info
        year_in_filename == IF extract_year(file_path.stem) # ""
                            THEN extract_year(file_path.stem)
                            ELSE extract_year(successful_search_term)
    IN IF year_in_filename # "" /\ info1.year # "" /\ year_in_filename # info1.year
       THEN [info1 EXCEPT
                !.media_type = UNKNOWN,
                !.title = clean_for_search(successful_search_term, CUSTOM_STRINGS_TO_REMOVE),
                !.year = year_in_filename]
       ELSE info1

\* The per-kind destination directory (the dict lookups of sort_item and
\* force_move_item)
KindDir(c, media_type) ==
    CASE media_type = MOVIE -> c.MOVIES_DIR
      [] media_type = TV_SERIES -> c.TV_SHOWS_DIR
      [] media_type = ANIME_MOVIE -> c.ANIME_MOVIES_DIR
      [] media_type = ANIME_SERIES -> c.ANIME_SERIES_DIR
      [] OTHER -> NoPath

TypeEnabled(c, media_type) ==
    CASE media_type = MOVIE -> c.MOVIES_ENABLED
      [] media_type = TV_SERIES -> c.TV_SHOWS_ENABLED
      [] media_type = ANIME_MOVIE -> c.ANIME_MOVIES_ENABLED
      [] media_type = ANIME_SERIES -> c.ANIME_SERIES_ENABLED
      [] OTHER -> TRUE

\* The outcome of a step of the sorter: the filesystem, the statistics and
\* whether an exception left the step.
Res(f, s, raised) == [fs |-> f, stats |-> s, raised |-> raised]

\* s[k] += d, which raises KeyError when the dict has no key k; with lenient,
\* s[k] = s.get(k, 0) + d, which does not.
Bump(f, s, k, d, lenient) ==
    IF k \in DOMAIN s THEN Res(f, [s EXCEPT ![k] = @ + d], FALSE)
    ELSE IF lenient
         THEN Res(f, [x \in DOMAIN s \cup {k} |-> IF x = k THEN d ELSE s[x]], FALSE)
    ELSE Res(f, s, TRUE)

\* After a move_file_group call m of sort_item: count the item under okKey,
\* or under errors.  undo: the branch first takes the item back from `unknown`.
Counted(s, m, okKey, undo, lenient) ==
    LET s1 == IF undo /\ "unknown" \in DOMAIN s
              THEN [s EXCEPT !["unknown"] = @ - 1] ELSE s
    IN IF m.raised THEN Res(m.fs, s, TRUE)
       ELSE IF m.ok THEN Bump(m.fs, s1, okKey, 1, lenient)
       ELSE Bump(m.fs, s, "errors", 1, FALSE)

\* What sort_item decides for an item: it makes no move_file_group call and
\* ends with res, or it calls move_file_group with dest_dir and then counts
\* the item (see Counted).
NoMove(res) == [move |-> FALSE, res |-> res]
MoveTo(dest_dir, s, okKey, undo, lenient) ==
    [move |-> TRUE, dest_dir |-> dest_dir, stats |-> s, okKey |-> okKey,
     undo |-> undo, lenient |-> lenient]

\* sort_item from `if info.media_type == MediaType.UNKNOWN:` to its return
RouteUnknown(c, f, s0, item, info) ==
    LET s == [s0 EXCEPT !["unknown"] = @ + 1]
        mismatched_path == get_mismatched_path(c)
        is_series == extract_season_info(item.stem) # -1
        fallback_dest == c.FALLBACK_SHOW_DESTINATION
        base_dir == CASE fallback_dest = "tv" -> c.TV_SHOWS_DIR
                      [] fallback_dest = "anime" -> c.ANIME_SERIES_DIR
                      [] fallback_dest = "mismatched" -> mismatched_path
                      [] OTHER -> NoPath
        extracted == extract_season_info(item.stem)
        season == IF extracted \in {-1, 0} THEN 1 ELSE extracted
        series_dest == Append(Join(base_dir, get_folder_name(info)), SeasonFolder(season))
        stat_key == IF fallback_dest = "tv" THEN "tv"
                    ELSE IF fallback_dest = "anime" THEN "anime_series"
                    ELSE "unknown"
        movie_dest == Join(mismatched_path, get_folder_name(info))
    IN IF "unknown" \notin DOMAIN s0 THEN NoMove(Res(f, s0, TRUE))
       ELSE IF c.CLEANUP_MODE_ENABLED THEN NoMove(Res(f, s, FALSE))
       ELSE IF mismatched_path = NoPath THEN NoMove(Bump(f, s, "errors", 1, FALSE))
       ELSE IF is_series THEN
            IF fallback_dest = "ignore" THEN NoMove(Res(f, s, FALSE))
            ELSE IF base_dir = NoPath THEN NoMove(Bump(f, s, "errors", 1, FALSE))
            ELSE MoveTo(series_dest, s, stat_key, TRUE, FALSE)
       ELSE MoveTo(movie_dest, s, "movies", TRUE, FALSE)

\* sort_item from `type_enabled_map = ...` to its end
RouteKnown(c, f, s, item, info) ==
    LET kind_dir == IF c.CLEANUP_MODE_ENABLED THEN item.dir
                    ELSE KindDir(c, info.media_type)
        movie_languages == LanguageSet(info.language)
        split_languages == c.LANGUAGES_TO_SPLIT
        should_split ==
            /\ info.media_type = MOVIE
            /\ c.SPLIT_MOVIES_DIR # NoPath
            /\ c.LANGUAGES_TO_SPLIT # {}
            /\ ~c.CLEANUP_MODE_ENABLED
            /\ IF "all" \in split_languages THEN "english" \notin movie_languages
               ELSE movie_languages \cap split_languages # {}
        base_dir == IF should_split THEN c.SPLIT_MOVIES_DIR ELSE kind_dir
        is_movie == info.media_type \in {MOVIE, ANIME_MOVIE}
        key == IF is_movie
               THEN (IF base_dir = c.SPLIT_MOVIES_DIR THEN "split_lang_movies"
                     ELSE IF info.media_type = ANIME_MOVIE THEN "anime_movies"
                     ELSE "movies")
               ELSE (IF info.media_type = ANIME_SERIES THEN "anime_series" ELSE "tv")
        extracted == extract_season_info(item.stem)
        season == IF extracted \in {-1, 0} THEN 1 ELSE extracted
        dest_folder == IF is_movie THEN Join(base_dir, get_folder_name(info))
                       ELSE Append(Join(base_dir, get_folder_name(info)),
                                   SeasonFolder(season))
    IN IF ~TypeEnabled(c, info.media_type) THEN NoMove(Res(f, s, FALSE))
       ELSE IF base_dir = NoPath THEN NoMove(Bump(f, s, "errors", 1, FALSE))
       ELSE IF c.CLEANUP_MODE_ENABLED /\ dest_folder = item.dir
            THEN NoMove(Bump(f, s, key, 1, is_movie))
       ELSE MoveTo(dest_folder, s, key, FALSE, is_movie)

\* The classification sort_item settles on: [info, term, raised].
\* override_name = << >> is None.
ClassifyItem(c, item, override_name) ==
    LET is_in_subfolder == item.dir # c.SOURCE_DIR
        primary_name_to_classify ==
            IF override_name # << >> THEN override_name
            ELSE IF is_in_subfolder THEN item.dir[Len(item.dir)]
            ELSE item.stem
        secondary_name_to_classify == item.stem
        Settle(first, fallback_info) ==
            LET try_fallback == /\ override_name = << >>
                                /\ first.media_type = UNKNOWN
                                /\ is_in_subfolder
                                /\ secondary_name_to_classify # primary_name_to_classify
                use_fallback == try_fallback /\ fallback_info.media_type # UNKNOWN
            IN IF classify_raises(c, primary_name_to_classify)
               THEN [info |-> first, term |-> primary_name_to_classify, raised |-> TRUE]
               ELSE IF try_fallback /\ classify_raises(c, secondary_name_to_classify)
               THEN [info |-> first, term |-> primary_name_to_classify, raised |-> TRUE]
               ELSE [info |-> IF use_fallback THEN fallback_info ELSE first,
                     term |-> IF use_fallback THEN secondary_name_to_classify
                              ELSE primary_name_to_classify,
                     raised |-> FALSE]
    IN The({Settle(first, fallback_info) :
               first \in {classify_media(c, primary_name_to_classify,
                                         CUSTOM_STRINGS_TO_REMOVE)},
               fallback_info \in {classify_media(c, secondary_name_to_classify,
                                                 CUSTOM_STRINGS_TO_REMOVE)}})

\* sort_item up to its move_file_group call, if it makes one
Route(c, f, s, item, override_name, env) ==
    LET scan_raises == \/ item.dir \notin f.dirs
                       \/ Exists(f.files, item) /\ FileAt(f.files, item).id \in env.badScan
        Known(info) == IF info.media_type = UNKNOWN THEN RouteUnknown(c, f, s, item, info)
                       ELSE RouteKnown(c, f, s, item, info)
        Classified(cl) ==
            IF cl.raised THEN NoMove(Res(f, s, TRUE))
            ELSE IF scan_raises THEN NoMove(Res(f, s, TRUE))
            ELSE The({Known(info) : info \in {validate_api_result(item, cl.term, cl.info)}})
    IN IF item.ext \in SIDECAR_EXTENSIONS THEN NoMove(Res(f, s, FALSE))
       ELSE The({Classified(cl) : cl \in {ClassifyItem(c, item, override_name)}})

\* sort_item: Res.  item is a path.
sort_item(c, f, s, item, override_name, dry_run, env) ==
    LET files_to_move == << item >> \o find_sidecar_files(f.files, item)
        Moved(r, m) == Counted(r.stats, m, r.okKey, r.undo, r.lenient)
        Routed(r) ==
            IF ~r.move THEN r.res
            ELSE The({Moved(r, m) :
                         m \in {move_file_group(f, files_to_move, r.dest_dir,
                                                dry_run, env)}})
    IN The({Routed(r) : r \in {Route(c, f, s, item, override_name, env)}})

(***************************************************************************)
(* MediaSorter: the directory pass                                         *)
(***************************************************************************)
\* all(self.fm.ensure_dir(d) for d in dirs_to_check if d): stops at the
\* first directory that cannot be made; those made before it stay.
RECURSIVE EnsureAll(_, _, _, _)
EnsureAll(dirs, dirs_to_check, dry_run, env) ==
    IF dirs_to_check = << >> THEN [ok |-> TRUE, dirs |-> dirs]
    ELSE IF Head(dirs_to_check) = NoPath
         THEN EnsureAll(dirs, Tail(dirs_to_check), dry_run, env)
    ELSE LET e == ensure_dir(dirs, Head(dirs_to_check), dry_run, env)
         IN IF e.ok THEN EnsureAll(e.dirs, Tail(dirs_to_check), dry_run, env)
            ELSE e

\* ensure_target_dirs: [ok, dirs]
ensure_target_dirs(c, dirs, dry_run, env) ==
    LET dirs_to_check ==
            << get_mismatched_path(c) >>
            \o (IF c.MOVIES_ENABLED THEN << c.MOVIES_DIR >> ELSE << >>)
            \o (IF c.TV_SHOWS_ENABLED THEN << c.TV_SHOWS_DIR >> ELSE << >>)
            \o (IF c.ANIME_MOVIES_ENABLED THEN << c.ANIME_MOVIES_DIR >> ELSE << >>)
            \o (IF c.ANIME_SERIES_ENABLED THEN << c.ANIME_SERIES_DIR >> ELSE << >>)
            \o (IF c.LANGUAGES_TO_SPLIT # {} /\ c.SPLIT_MOVIES_DIR # NoPath
                THEN << c.SPLIT_MOVIES_DIR >> ELSE << >>)
    IN IF c.CLEANUP_MODE_ENABLED THEN [ok |-> TRUE, dirs |-> dirs]
       ELSE EnsureAll(dirs, dirs_to_check, dry_run, env)

\* The primary media files a pass finds: the deep scan of the source
\* directory, less what lies under the Mismatched directory when that exists.
\* (The code tests the prefix on the path strings; the model on components.)
MediaFiles(c, f) ==
    LET mismatched_path == get_mismatched_path(c)
        all_files_found ==
            {p \in Paths(f.files) :
                /\ IsPrefix(c.SOURCE_DIR, p.dir)
                /\ p.ext \in SUPPORTED_EXTENSIONS \cup SIDECAR_EXTENSIONS}
        kept == IF mismatched_path # NoPath /\ mismatched_path \in f.dirs
                THEN {p \in all_files_found : ~IsPrefix(mismatched_path, p.dir)}
                ELSE all_files_found
    IN {p \in kept : p.ext \in SUPPORTED_EXTENSIONS}

\* The orders in which a scan may list a set of files
Orders(S) ==
    {o \in [1..Cardinality(S) -> S] : \A x \in S : \E i \in DOMAIN o : o[i] = x}

\* cleanup_empty_dirs, past its dry-run test: os.walk bottom-up removes every
\* directory that is empty when it is reached, the source root and the
\* Mismatched directory excepted.
\* The sweep as one top-down walk: the directories that are empty when the
\* walk starts are removed, their parents are not looked at again
Sweep_OneRound(c, f, path) ==
    LET mismatched_path == get_mismatched_path(c)
        empty == {d \in f.dirs :
                     /\ IsPrefix(path, d) /\ d # path
                     /\ d # mismatched_path
                     /\ ~\E g \in f.files : g.dir = d
                     /\ ~\E e \in f.dirs : Len(e) = Len(d) + 1 /\ IsPrefix(d, e)}
    IN [f EXCEPT !.dirs = @ \ empty]

RECURSIVE Sweep(_, _, _)
Sweep(c, f, path) ==
    LET mismatched_path == get_mismatched_path(c)
        empty == {d \in f.dirs :
                     /\ IsPrefix(path, d) /\ d # path
                     /\ d # mismatched_path
                     /\ ~\E g \in f.files : g.dir = d
                     /\ ~\E e \in f.dirs : Len(e) = Len(d) + 1 /\ IsPrefix(d, e)}
    IN IF empty = {} THEN f ELSE Sweep(c, [f EXCEPT !.dirs = @ \ empty], path)

cleanup_empty_dirs(c, f, path, dry_run) ==
    IF dry_run THEN f ELSE Sweep(c, f, path)

\* PassLoop with the try block around the whole loop: an exception ends it
RECURSIVE PassLoop_ExceptionEndsPass(_, _, _, _, _, _, _, _, _)
PassLoop_ExceptionEndsPass(c, f, s, media_files, started, stopAfter, dry_run, env, log) ==
    IF media_files = << >> \/ (stopAfter # -1 /\ stopAfter <= started)
    THEN [fs |-> f, stats |-> s, log |-> log]
    ELSE LET file_path == Head(media_files)
             s1 == [s EXCEPT !["processed"] = @ + 1]
             Sorted(r) ==
                 LET s2 == IF r.raised THEN [r.stats EXCEPT !["errors"] = @ + 1]
                           ELSE r.stats
                     entry == [item |-> file_path, raised |-> r.raised,
                               before |-> s, after |-> s2]
                 IN IF r.raised
                    THEN [fs |-> r.fs, stats |-> s2, log |-> Append(log, entry)]
                    ELSE PassLoop_ExceptionEndsPass(c, r.fs, s2, Tail(media_files),
                                                    started + 1, stopAfter, dry_run,
                                                    env, Append(log, entry))
         IN The({Sorted(r) :
                    r \in {sort_item(c, f, s1, file_path, << >>, dry_run, env)}})

\* The loop of process_source_directory over media_files.  started: how many
\* items have been started; stopAfter: the stop signal arrives while item
\* number stopAfter is in flight (0: before the first test of the flag;
\* -1: never).  log: one entry per started item.
RECURSIVE PassLoop(_, _, _, _, _, _, _, _, _)
PassLoop(c, f, s, media_files, started, stopAfter, dry_run, env, log) ==
    IF media_files = << >> \/ (stopAfter # -1 /\ stopAfter <= started)
    THEN [fs |-> f, stats |-> s, log |-> log]
    ELSE LET file_path == Head(media_files)
             s1 == [s EXCEPT !["processed"] = @ + 1]
             Sorted(r) ==
                 LET s2 == IF r.raised THEN [r.stats EXCEPT !["errors"] = @ + 1]
                           ELSE r.stats
                     entry == [item |-> file_path, raised |-> r.raised,
                               before |-> s, after |-> s2]
                 IN PassLoop(c, r.fs, s2, Tail(media_files), started + 1, stopAfter,
                             dry_run, env, Append(log, entry))
         IN The({Sorted(r) :
                    r \in {sort_item(c, f, s1, file_path, << >>, dry_run, env)}})

\* process_source_directory:
\* [fs, stats, log, total, valid, stop], where valid is FALSE when the pass
\* ended at its directory validation and stop is the stop flag at its end.
process_source_directory(c, f, order, stopAfter, dry_run, env) ==
    LET source_dir == c.SOURCE_DIR
        media_files == order
        stop == stopAfter # -1
        Looped(loop) ==
            [fs |-> IF ~stop /\ ~c.CLEANUP_MODE_ENABLED
                    THEN cleanup_empty_dirs(c, loop.fs, source_dir, dry_run)
                    ELSE loop.fs,
             stats |-> loop.stats, log |-> loop.log,
             total |-> Len(media_files), valid |-> TRUE, stop |-> stop]
        Ensured(t) ==
            LET f1 == [f EXCEPT !.dirs = t.dirs]
            IN IF ~t.ok
               THEN [fs |-> f1, stats |-> ZeroStats, log |-> << >>, total |-> 0,
                     valid |-> FALSE, stop |-> FALSE]
               ELSE The({Looped(loop) :
                            loop \in {PassLoop(c, f1, ZeroStats, media_files, 0,
                                               stopAfter, dry_run, env, << >>)}})
    IN IF source_dir = NoPath \/ source_dir \notin f.dirs
       THEN [fs |-> f, stats |-> ZeroStats, log |-> << >>, total |-> 0,
             valid |-> FALSE, stop |-> FALSE]
       ELSE The({Ensured(t) : t \in {ensure_target_dirs(c, f.dirs, dry_run, env)}})

\* force_move_item up to its move_file_group call: the destination folder,
\* NoPath when the kind has no directory
force_move_dest(c, item, folder_name, media_type, is_split_lang_override) ==
    LET base_dir == IF /\ media_type = MOVIE /\ is_split_lang_override
                       /\ c.SPLIT_MOVIES_DIR # NoPath
                    THEN c.SPLIT_MOVIES_DIR
                    ELSE KindDir(c, media_type)
        clean_folder_name == KeepToks(folder_name, IllegalToks)
        extracted == extract_season_info(item.stem)
        season == IF extracted \in {-1, 0} THEN 1 ELSE extracted
    IN IF base_dir = NoPath THEN NoPath
       ELSE IF media_type \in {TV_SERIES, ANIME_SERIES}
            THEN Append(Join(base_dir, clean_folder_name), SeasonFolder(season))
       ELSE Join(base_dir, clean_folder_name)

\* force_move_item: the filesystem after it
force_move_item(c, f, item, folder_name, media_type, is_split_lang_override, dry_run, env) ==
    LET files_to_move == << item >> \o find_sidecar_files(f.files, item)
        dest_folder == force_move_dest(c, item, folder_name, media_type,
                                       is_split_lang_override)
    IN IF item.dir \notin f.dirs THEN f
       ELSE IF dest_folder = NoPath THEN f
       ELSE move_file_group(f, files_to_move, dest_folder, dry_run, env).fs

\* extract_episode_info: its first pattern holds the character class
\* [._- ], whose range '_'..' ' is reversed: re.search raises re.error on
\* every call, whatever the filename.
extract_episode_info_raises == TRUE

\* The inner loop of rename_files_in_library over one file group
RECURSIVE RenameGroup(_, _, _, _, _)
RenameGroup(files, group, sanitized_stem, dry_run, env) ==
    IF group = << >> THEN files
    ELSE LET file_to_rename == Head(group)
             new_target_path == [file_to_rename EXCEPT !.stem = sanitized_stem]
             files1 == IF \/ file_to_rename = new_target_path
                          \/ Exists(files, new_target_path)
                          \/ dry_run
                          \/ ~Exists(files, file_to_rename)
                          \/ FileAt(files, file_to_rename).id \in env.badMoves
                       THEN files
                       ELSE (files \ {FileAt(files, file_to_rename)})
                            \cup {[FileAt(files, file_to_rename)
                                     EXCEPT !.stem = sanitized_stem]}
         IN RenameGroup(files1, Tail(group), sanitized_stem, dry_run, env)

\* The loop of rename_files_in_library: the files after it.  An exception in
\* the loop body ends the whole call (the except clause is outside the loop).
RECURSIVE RenameLoop(_, _, _, _, _)
RenameLoop(c, files, media_files, dry_run, env) ==
    IF media_files = << >> THEN files
    ELSE LET item == Head(media_files)
             info == classify_media(c, item.stem, CUSTOM_STRINGS_TO_REMOVE)
             is_series == info.media_type \in {TV_SERIES, ANIME_SERIES}
             sanitized_stem == KeepToks(get_folder_name(info), IllegalToks)
             file_group == << item >> \o find_sidecar_files(files, item)
         IN IF classify_raises(c, item.stem) THEN files
            ELSE IF info.media_type = UNKNOWN
                 THEN RenameLoop(c, files, Tail(media_files), dry_run, env)
            ELSE IF is_series /\ extract_episode_info_raises THEN files
            ELSE IF sanitized_stem = << >>
                 THEN RenameLoop(c, files, Tail(media_files), dry_run, env)
            ELSE IF Exists(files, item) /\ FileAt(files, item).id \in env.badScan
                 THEN files
            ELSE RenameLoop(c, RenameGroup(files, file_group, sanitized_stem,
                                           dry_run, env),
                            Tail(media_files), dry_run, env)

\* The media files rename_files_in_library finds under target_path
LibraryFiles(f, target_path) ==
    {p \in Paths(f.files) :
        IsPrefix(target_path, p.dir) /\ p.ext \in SUPPORTED_EXTENSIONS}

\* rename_files_in_library: the filesystem after it
rename_files_in_library(c, f, order, dry_run, env) ==
    [f EXCEPT !.files = RenameLoop(c, f.files, order, dry_run, env)]

(***************************************************************************)
(* The engine's operations, run one after the other on one engine          *)
(* instance (specification Spec)                                           *)
(***************************************************************************)
\* How many files a filesystem starts with, and how many operations run
MaxFiles == 2
MaxOps == 2

Root(n) == << << n >> >>
SRC == Root("src")
MovieFolder == << << "movies" >>, << "Movie", "(2019)" >> >>

\* Config(), with its directories and its primary API key set
DefaultConfig ==
    [SOURCE_DIR |-> SRC,
     MOVIES_DIR |-> Root("movies"),
     TV_SHOWS_DIR |-> Root("tv"),
     ANIME_MOVIES_DIR |-> Root("anime_movies"),
     ANIME_SERIES_DIR |-> Root("anime_series"),
     MISMATCHED_DIR |-> NoPath,
     SPLIT_MOVIES_DIR |-> NoPath,
     LANGUAGES_TO_SPLIT |-> {"fr"},
     API_PROVIDER |-> "omdb",
     OMDB_KEY_SET |-> TRUE,
     TMDB_KEY_SET |-> FALSE,
     FALLBACK_SHOW_DESTINATION |-> "mismatched",
     MOVIES_ENABLED |-> TRUE,
     TV_SHOWS_ENABLED |-> TRUE,
     ANIME_MOVIES_ENABLED |-> TRUE,
     ANIME_SERIES_ENABLED |-> TRUE,
     CLEANUP_MODE_ENABLED |-> FALSE]

OmdbData(type, title, year, language, genre, country) ==
    [st |-> "data", Type |-> type, Title |-> title, Year |-> year,
     Language |-> language, Genre |-> genre, Country |-> country]

AnilistData(format, english, romaji, seasonYear, genres) ==
    [st |-> "data", format |-> format, english |-> english, romaji |-> romaji,
     seasonYear |-> seasonYear, genres |-> genres]

TmdbData(has_title, title, name, release_date, first_air_date, english_name, genres) ==
    [st |-> "data", has_title |-> has_title, title |-> title, name |-> name,
     release_date |-> release_date, first_air_date |-> first_air_date,
     english_name |-> english_name, genres |-> genres]

\* The providers' answers of specification Spec
Catalogue ==
    [omdb |-> (<< "Movie" >> :> OmdbData("movie", << "Movie" >>, "2019", "English",
                                         "Drama", "USA"))
              @@ (<< "Show" >> :> OmdbData("series", << "Show" >>, "2019", "English",
                                           "Drama", "USA"))
              @@ (<< "Film" >> :> OmdbData("movie", << "Film" >>, "2019", "French",
                                          "Drama", "France"))
              @@ (<< "Crash" >> :> [st |-> "crash"]),
     tmdb |-> [t \in {} |-> NoData],
     anilist |-> [t \in {} |-> NoData]]

File(dir, stem, ext, id) == [dir |-> dir, stem |-> stem, ext |-> ext, id |-> id]

\* The files a filesystem of Spec may start with
CandidateFiles ==
    {File(SRC, << "Movie", "2019" >>, ".mkv", 1),
     File(SRC, << "Movie", "2019" >>, ".srt", 2),
     File(Append(SRC, << "Pack" >>), << "Movie", "2019" >>, ".mkv", 3),
     File(<< << "movies" >>, << "Movie", "(2019)" >> >>, << "Movie", "2019" >>, ".srt", 4),
     File(<< << "movies" >>, << "Movie", "(2019)" >> >>, << "Movie", "2019" >>, ".mkv", 5),
     File(SRC, << "Show", "S02E05" >>, ".mkv", 6),
     File(SRC, << "Movie", "2021" >>, ".mkv", 7),
     File(SRC, << "Crash", "2019" >>, ".mkv", 8)}

InitialFs(S) ==
    [files |-> S, dirs |-> {SRC} \cup UNION {Ancestors(g.dir) : g \in S}]

\* What the operating system may refuse during a run: nothing, or one thing.
EnvChoices(c, S) ==
    {NoFailure}
    \cup {[NoFailure EXCEPT !.badMoves = {i}] : i \in Ids(S)}
    \cup {[NoFailure EXCEPT !.badScan = {i}] : i \in Ids(S)}
    \cup {[NoFailure EXCEPT !.badStat = {i}] : i \in Ids(S)}
    \cup {[NoFailure EXCEPT !.badDirs = {d}] :
             d \in {c.MOVIES_DIR, get_mismatched_path(c)} \ {NoPath}}

\* The orders in which the scan of a pass may list the primary files
ScanOrders(c, f, dry_run, e) ==
    Orders(MediaFiles(c, [f EXCEPT !.dirs = ensure_target_dirs(c, f.dirs, dry_run, e).dirs]))

Primaries(f) == {p \in Paths(f.files) : p.ext \in SUPPORTED_EXTENSIONS}

None == [none |-> TRUE]

\* No watch run and no concurrent instance
NoWatch ==
    /\ pc = "Idle"
    /\ stop_event = FALSE
    /\ watcher = None
    /\ mtime = 1
    /\ todo = << >>
    /\ hist = [stopRequested |-> FALSE, stopAtPass |-> 0, stopInPass |-> FALSE,
               nPasses |-> 0, nArrivals |-> 0]
NoThreads == thr = << >>

\* A new engine instance over a filesystem holding the files S
InitEngine(S) ==
    /\ prov = Catalogue
    /\ fs = InitialFs(S)
    /\ stats = EmptyStats
    /\ op = [name |-> "init"]
    /\ nOps = 0

Init ==
    /\ cfg \in {[DefaultConfig EXCEPT !.CLEANUP_MODE_ENABLED = b] : b \in BOOLEAN}
    /\ dryRun \in BOOLEAN
    /\ \E S \in SUBSET CandidateFiles :
          /\ Cardinality(S) <= MaxFiles
          /\ InitEngine(S)
          /\ os \in EnvChoices(cfg, S)
    /\ NoWatch /\ NoThreads

\* The same, over fewer files and with a move as the only thing refused
InitOps ==
    /\ cfg \in {[DefaultConfig EXCEPT !.CLEANUP_MODE_ENABLED = b] : b \in BOOLEAN}
    /\ dryRun \in BOOLEAN
    /\ \E S \in SUBSET {f \in CandidateFiles : f.id \in {1, 2, 3, 5, 6}} :
          /\ Cardinality(S) <= MaxFiles
          /\ InitEngine(S)
          /\ os \in {NoFailure} \cup {[NoFailure EXCEPT !.badMoves = {i}] : i \in Ids(S)}
    /\ NoWatch /\ NoThreads

\* process_directory()
ProcessDirectory ==
    /\ nOps < MaxOps
    /\ \E order \in ScanOrders(cfg, fs, dryRun, os) :
       \E stopAfter \in -1..Len(order) :
          \E r \in {process_source_directory(cfg, fs, order, stopAfter, dryRun, os)} :
             /\ fs' = r.fs
             /\ stats' = r.stats
             /\ op' = [name |-> "process_directory", order |-> order,
                       stopAfter |-> stopAfter, log |-> r.log,
                       total |-> r.total, valid |-> r.valid, stop |-> r.stop]
    /\ nOps' = nOps + 1
    /\ UNCHANGED <<watchVars, thr, cfg, prov, dryRun, os>>

\* sort_one(path, override_name?)
SortOne ==
    /\ nOps < MaxOps
    /\ \E item \in Primaries(fs) :
       \E override_name \in {<< >>, << "Movie" >>} :
          \E r \in {sort_item(cfg, fs, stats, item, override_name, dryRun, os)} :
             /\ fs' = r.fs
             /\ stats' = r.stats
             /\ op' = [name |-> "sort_one", item |-> item,
                       override_name |-> override_name, raised |-> r.raised]
    /\ nOps' = nOps + 1
    /\ UNCHANGED <<watchVars, thr, cfg, prov, dryRun, os>>

\* force_move(path, folder_name, kind, split_override?)
ForceMove ==
    /\ nOps < MaxOps
    /\ \E item \in Primaries(fs) :
       \E folder_name \in {<< "Movie", "(2019)" >>, << "Show" >>} :
       \E media_type \in {MOVIE, TV_SERIES} :
          /\ fs' = force_move_item(cfg, fs, item, folder_name, media_type, FALSE,
                                   dryRun, os)
          /\ op' = [name |-> "force_move", item |-> item]
    /\ nOps' = nOps + 1
    /\ UNCHANGED <<watchVars, thr, cfg, prov, stats, dryRun, os>>

\* The directories a caller may hand to move_file_group
DestDirs(primary) ==
    {MovieFolder, primary.dir, Root("tv")}

\* FileManager.move_file_group(files, dest_dir) on a primary file and the
\* sidecars found for it
MoveGroup ==
    /\ nOps < MaxOps
    /\ \E primary \in Primaries(fs) :
       \E dest_dir \in DestDirs(primary) :
       \E file_group \in {<< primary >> \o find_sidecar_files(fs.files, primary)} :
       \E r \in {move_file_group(fs, file_group, dest_dir, dryRun, os)} :
             /\ fs' = r.fs
             /\ op' = [name |-> "move_group", file_group |-> file_group,
                       dest_dir |-> dest_dir, ok |-> r.ok, raised |-> r.raised]
    /\ nOps' = nOps + 1
    /\ UNCHANGED <<watchVars, thr, cfg, prov, stats, dryRun, os>>

\* FileManager.delete_file_group(primary)
DeleteGroup ==
    /\ nOps < MaxOps
    /\ \E primary \in Primaries(fs) :
          /\ fs' = delete_file_group(fs, primary, dryRun, os)
          /\ op' = [name |-> "delete_group", primary |-> primary]
    /\ nOps' = nOps + 1
    /\ UNCHANGED <<watchVars, thr, cfg, prov, stats, dryRun, os>>

\* rename_in_library(target_dir)
RenameInLibrary ==
    /\ nOps < MaxOps
    /\ \E target_path \in {SRC, Root("movies")} :
       \E order \in Orders(LibraryFiles(fs, target_path)) :
          /\ target_path \in fs.dirs
          /\ fs' = rename_files_in_library(cfg, fs, order, dryRun, os)
          /\ op' = [name |-> "rename_in_library", target_path |-> target_path]
    /\ nOps' = nOps + 1
    /\ UNCHANGED <<watchVars, thr, cfg, prov, stats, dryRun, os>>

Next ==
    \/ ProcessDirectory
    \/ SortOne
    \/ ForceMove
    \/ MoveGroup
    \/ DeleteGroup
    \/ RenameInLibrary

\* Any sequence of the engine's operations
Spec == InitOps /\ [][Next]_vars

\* Directory passes only, with every refusal of the operating system
SpecPass == Init /\ [][ProcessDirectory]_vars

\* A primary file with its sidecars in the source directory, and files that
\* already sit in the destination under the names of some of them
MaxSidecars == 2
GroupStem == << "Movie", "2019" >>
GroupPrimary == File(SRC, GroupStem, ".mkv", 1)
GroupSidecars ==
    {File(SRC, GroupStem, ".srt", 2), File(SRC, GroupStem, ".sub", 9),
     File(SRC, GroupStem, ".nfo", 10)}
Occupant(g) == File(MovieFolder, g.stem, g.ext, g.id + 20)

InitMove ==
    /\ cfg = DefaultConfig
    /\ dryRun \in BOOLEAN
    /\ \E sidecars \in SUBSET GroupSidecars :
       \E taken \in SUBSET ({GroupPrimary} \cup sidecars) :
          /\ Cardinality(sidecars) <= MaxSidecars
          /\ InitEngine({GroupPrimary} \cup sidecars \cup {Occupant(g) : g \in taken})
          /\ os \in EnvChoices(cfg, {GroupPrimary} \cup sidecars)
    /\ NoWatch /\ NoThreads

\* move_file_group calls on such a group
SpecMove == InitMove /\ [][MoveGroup]_vars

(***************************************************************************)
(* Properties of the engine's operations run in sequence                   *)
(***************************************************************************)
\* No two files share a path
PathsDistinct(files) == Cardinality(Paths(files)) = Cardinality(files)

\* C1: with dry-run off, process_directory, sort_one, force_move and
\* move_group, run one after the other, never overwrite and never lose a
\* file: every file present before the operation is present after it.
C1_NoFileLostOrOverwritten ==
    [][(/\ ~dryRun
        /\ op'.name \in {"process_directory", "sort_one", "force_move", "move_group"})
       => /\ Ids(fs'.files) = Ids(fs.files)
          /\ PathsDistinct(fs'.files)]_vars

\* C1 witness: a pass with dry-run off has met a file whose target was taken,
\* and left both files where they were.
C1_Witness ==
    /\ ~dryRun
    /\ op.name = "process_directory"
    /\ os = NoFailure
    /\ \E i \in DOMAIN op.log :
          /\ Exists(fs.files, op.log[i].item)
          /\ Exists(fs.files, InDir(op.log[i].item, MovieFolder))
          /\ op.log[i].item.dir # MovieFolder
          /\ op.log[i].after["movies"] = op.log[i].before["movies"] + 1

\* The operating system refusing nothing that a dry run does not attempt
MovesPerformed(e) == [e EXCEPT !.badMoves = {}, !.badDirs = {}]

\* C2: with dry-run on, every operation leaves the filesystem exactly as it
\* was, and the statistics of a pass are those of the same pass with the
\* moves performed.
C2_DryRunChangesNothing ==
    [][dryRun
       => /\ fs' = fs
          /\ op'.name = "process_directory"
             => stats' = process_source_directory(cfg, fs, op'.order, op'.stopAfter,
                                                  FALSE, MovesPerformed(os)).stats]_vars

\* C2 witness: a dry-run pass has counted a movie whose file is still in the
\* source directory although its target is free.
C2_Witness ==
    /\ dryRun
    /\ op.name = "process_directory"
    /\ \E i \in DOMAIN op.log :
          /\ op.log[i].item.dir = SRC
          /\ Exists(fs.files, op.log[i].item)
          /\ ~Exists(fs.files, InDir(op.log[i].item, MovieFolder))
          /\ op.log[i].after["movies"] = op.log[i].before["movies"] + 1

(***************************************************************************)
(* Properties of directory passes                                          *)
(***************************************************************************)
\* C3: a second process_directory, run right after a first one that was not
\* stopped, with dry-run off and nothing refused by the operating system,
\* moves no file.
C3_SecondPassMovesNothing ==
    [][(/\ ~dryRun
        /\ os = NoFailure
        /\ op.name = "process_directory" /\ op.valid /\ ~op.stop
        /\ op'.name = "process_directory")
       => fs'.files = fs.files]_vars

\* The primary files a pass discovers in the filesystem f
Discovered(f) ==
    MediaFiles(cfg, [f EXCEPT !.dirs = ensure_target_dirs(cfg, f.dirs, dryRun, os).dirs])

\* C8: in a pass that is not stopped, an exception leaving sort_item for item
\* k adds exactly one to errors and does not end the pass: every discovered
\* primary file is attempted and processed ends as their number.
C8_ExceptionCountedPassContinues ==
    [][(op'.name = "process_directory" /\ op'.valid /\ ~op'.stop)
       => /\ stats'["processed"] = Cardinality(Discovered(fs))
          /\ {op'.log[i].item : i \in DOMAIN op'.log} = Discovered(fs)
          /\ \A i \in DOMAIN op'.log :
                op'.log[i].raised
                => op'.log[i].after["errors"] = op'.log[i].before["errors"] + 1]_vars

\* C8 witness: a pass that was not stopped has seen an exception on one item
\* and attempted another item after it.
C8_Witness ==
    /\ op.name = "process_directory" /\ op.valid /\ ~op.stop
    /\ \E i \in DOMAIN op.log : op.log[i].raised /\ i < Len(op.log)
    /\ stats["processed"] = Len(op.log)

(***************************************************************************)
(* Properties of move_file_group                                           *)
(***************************************************************************)
\* The file at path p before the call is in dest_dir after it
AtDest(p, dest_dir) ==
    \E g \in fs.files : PathOf(g) = p /\ [g EXCEPT !.dir = dest_dir] \in fs'.files

\* C4: a move_group call on a primary file and its sidecars (dry-run off,
\* nothing refused by the operating system) ends in one of two outcomes: the
\* primary and every sidecar whose name is free in the destination are in
\* the destination, or no file has moved.
C4_TwoOutcomesOnly ==
    [][(op'.name = "move_group" /\ ~dryRun /\ os = NoFailure)
       => LET group == op'.file_group
              dest_dir == op'.dest_dir
          IN \/ /\ AtDest(group[1], dest_dir)
                /\ \A i \in 2..Len(group) :
                      ~Exists(fs.files, InDir(group[i], dest_dir))
                      => AtDest(group[i], dest_dir)
             \/ fs'.files = fs.files]_vars

(***************************************************************************)
(* The conflict validator on its own (specification SpecVal): the inputs   *)
(* are drawn in the initial state, the one action applies the validator.   *)
(***************************************************************************)
\* The longest file stem, in tokens
MaxStem == 3
StemToks == {"Show", "2019", "2021", "S02E05", "1080"}
Stems == UNION {[1..n -> StemToks] : n \in 1..MaxStem}
SearchTerms == {<< "Show" >>, << "Show", "2021" >>, << "FRENCH", "Show", "(2019)" >>}
ApiInfos ==
    {MediaInfo(<< "Show" >>, year, media_type, language, "Drama") :
        year \in {"", "2019", "2021"}, media_type \in MediaType,
        language \in {"", "English", "English, Japanese"}}

InitVal ==
    /\ cfg = DefaultConfig
    /\ dryRun = FALSE
    /\ os = NoFailure
    /\ prov = Catalogue
    /\ fs = InitialFs({})
    /\ stats = EmptyStats
    /\ nOps = 0
    /\ NoWatch /\ NoThreads
    /\ \E stem \in Stems, term \in SearchTerms, api_info \in ApiInfos :
          op = [name |-> "input",
                file_path |-> [dir |-> SRC, stem |-> stem, ext |-> ".mkv"],
                successful_search_term |-> term, api_info |-> api_info]

\* _validate_api_result(file_path, successful_search_term, api_info)
ValidateApiResult ==
    /\ op.name = "input"
    /\ op' = [name |-> "validate_api_result",
              file_path |-> op.file_path,
              successful_search_term |-> op.successful_search_term,
              api_info |-> op.api_info,
              out |-> validate_api_result(op.file_path, op.successful_search_term,
                                          op.api_info)]
    /\ nOps' = nOps + 1
    /\ UNCHANGED <<watchVars, thr, cfg, prov, fs, stats, dryRun, os>>

SpecVal == InitVal /\ [][ValidateApiResult]_vars

\* The year the validator reads from the filename or, failing that, from the
\* search term
FilenameYear ==
    IF extract_year(op.file_path.stem) # "" THEN extract_year(op.file_path.stem)
    ELSE extract_year(op.successful_search_term)

YearsDiffer ==
    FilenameYear # "" /\ op.api_info.year # "" /\ FilenameYear # op.api_info.year

\* C9: when the filename year (or, failing that, the search term's) and the
\* record's year are both present and differ, the validator's output is of
\* kind Unknown, its title is the cleaned search term and its year is the
\* filename-derived year.
C9_YearMismatchDowngrades ==
    (op.name = "validate_api_result" /\ YearsDiffer)
    => /\ op.out.media_type = UNKNOWN
       /\ op.out.title = clean_for_search(op.successful_search_term,
                                          CUSTOM_STRINGS_TO_REMOVE)
       /\ op.out.year = FilenameYear

\* C9 witness: filename year 2019 against a movie record of 2021
C9_Witness ==
    /\ op.name = "validate_api_result"
    /\ extract_year(op.file_path.stem) = "2019"
    /\ op.api_info.year = "2021"
    /\ op.api_info.media_type = MOVIE
    /\ op.out.media_type = UNKNOWN
    /\ op.out.title = << "Show" >>
    /\ op.out.year = "2019"

SeasonMarkerAndMovieKind ==
    /\ op.name = "validate_api_result"
    /\ extract_season_info(op.file_path.stem) # -1
    /\ op.api_info.media_type \in {MOVIE, ANIME_MOVIE}

SeriesKindFor(language) == IF HasJapanese(language) THEN ANIME_SERIES ELSE TV_SERIES

\* C10 as stated: a season marker in the filename and a record of a movie
\* kind always give a series kind (AnimeSeries for a Japanese record, else
\* TvSeries), whatever the record's year.
C10_AlwaysSeriesKind ==
    SeasonMarkerAndMovieKind
    => op.out.media_type = SeriesKindFor(op.api_info.language)

\* C10 amended: a season marker in the filename and a record of a movie kind
\* never leave a movie kind; the output kind is the series kind for the
\* record's language, unless the filename year and the record's year are
\* both present and differ, and then it is Unknown.
C10_SeriesKindOrUnknown ==
    SeasonMarkerAndMovieKind
    => /\ op.out.media_type \notin {MOVIE, ANIME_MOVIE}
       /\ op.out.media_type = IF YearsDiffer THEN UNKNOWN
                              ELSE SeriesKindFor(op.api_info.language)

\* C10 witness: S02E05 in the filename turns a Japanese movie record into an
\* anime series
C10_Witness ==
    /\ SeasonMarkerAndMovieKind
    /\ "S02E05" \in {op.file_path.stem[i] : i \in DOMAIN op.file_path.stem}
    /\ op.api_info.media_type = MOVIE
    /\ op.api_info.language = "English, Japanese"
    /\ op.out.media_type = ANIME_SERIES

(***************************************************************************)
(* Watch mode (specification SpecWatch): start_watch_mode on one thread,   *)
(* step by step, with signal_stop and the arrival of files coming from     *)
(* outside at any moment.  pc is the thread's position:                    *)
(*   Idle       start_watch_mode has not been called                       *)
(*   Clear      before its stop_event.clear()                              *)
(*   CallPass   before a call of process_source_directory                  *)
(*   Loop       in process_source_directory, at the head of its for loop   *)
(*   Sweep      after the loop                                             *)
(*   AfterPass  back in start_watch_mode, before it tests the stop flag    *)
(*   Waiting    in stop_event.wait(timeout)                                *)
(*   Check      the wait timed out; before watcher.check_for_changes()     *)
(*   Stopped    start_watch_mode has returned                              *)
(***************************************************************************)
\* How many files arrive from outside during a watch run
MaxArrivals == 1
ArrivingFiles ==
    << File(SRC, << "Show", "S02E05" >>, ".mkv", 6),
       File(SRC, << "Movie", "2021" >>, ".mp4", 12),
       File(SRC, << "Show", "S02E05" >>, ".mp4", 13) >>

\* What the source directory lists: a change of it changes its st_mtime
SourceEntries(c, f) ==
    {p \in Paths(f.files) : p.dir = c.SOURCE_DIR}
    \cup {d \in f.dirs : Len(d) = Len(c.SOURCE_DIR) + 1 /\ IsPrefix(c.SOURCE_DIR, d)}
Touched(c, f, g, m) == IF SourceEntries(c, f) # SourceEntries(c, g) THEN m + 1 ELSE m

\* DirectoryWatcher.check_for_changes with >= for >
check_for_changes_NotStrict(c, f, w, m) ==
    IF c.SOURCE_DIR # NoPath /\ c.SOURCE_DIR \in f.dirs /\ m >= w.last_mtime
    THEN [changed |-> TRUE, watcher |-> [last_mtime |-> m]]
    ELSE [changed |-> FALSE, watcher |-> w]

\* DirectoryWatcher.check_for_changes without its assignment to last_mtime
check_for_changes_NoRecord(c, f, w, m) ==
    [changed |-> c.SOURCE_DIR # NoPath /\ c.SOURCE_DIR \in f.dirs /\ m > w.last_mtime,
     watcher |-> w]

\* DirectoryWatcher(config): __init__ and _scan
DirectoryWatcher(c, f, m) ==
    IF c.SOURCE_DIR # NoPath /\ c.SOURCE_DIR \in f.dirs
    THEN [last_mtime |-> m] ELSE [last_mtime |-> 0]

\* DirectoryWatcher.check_for_changes: [changed, watcher]
check_for_changes(c, f, w, m) ==
    IF c.SOURCE_DIR # NoPath /\ c.SOURCE_DIR \in f.dirs /\ m > w.last_mtime
    THEN [changed |-> TRUE, watcher |-> [last_mtime |-> m]]
    ELSE [changed |-> FALSE, watcher |-> w]

InitWatch ==
    /\ cfg \in {[DefaultConfig EXCEPT !.CLEANUP_MODE_ENABLED = b] : b \in BOOLEAN}
    /\ dryRun = FALSE
    /\ os = NoFailure
    /\ \E S \in SUBSET {f \in CandidateFiles : f.id \in {1, 3, 7}} :
          Cardinality(S) <= MaxFiles /\ InitEngine(S)
    /\ NoWatch /\ NoThreads

\* start_watch_mode up to its stop_event.clear()
StartWatchMode ==
    /\ pc = "Idle"
    /\ pc' = IF cfg.CLEANUP_MODE_ENABLED THEN "Stopped" ELSE "Clear"
    /\ UNCHANGED <<cfg, prov, fs, stats, dryRun, os, op, nOps, thr,
                   stop_event, watcher, mtime, todo, hist>>

\* self.stop_event.clear() of start_watch_mode
ClearStopEvent ==
    /\ pc = "Clear"
    /\ stop_event' = FALSE
    /\ pc' = "CallPass"
    /\ UNCHANGED <<cfg, prov, fs, stats, dryRun, os, op, nOps, thr,
                   watcher, mtime, todo, hist>>

\* process_source_directory from its first line to the head of its loop
PassBegin ==
    /\ pc = "CallPass"
    /\ stop_event' = FALSE
    /\ stats' = ZeroStats
    /\ \E t \in {ensure_target_dirs(cfg, fs.dirs, dryRun, os)} :
          LET source_ok == cfg.SOURCE_DIR # NoPath /\ cfg.SOURCE_DIR \in fs.dirs
              f1 == IF source_ok THEN [fs EXCEPT !.dirs = t.dirs] ELSE fs
          IN /\ fs' = f1
             /\ mtime' = Touched(cfg, fs, f1, mtime)
             /\ IF source_ok /\ t.ok
                THEN /\ todo' \in Orders(MediaFiles(cfg, f1))
                     /\ pc' = "Loop"
                ELSE /\ todo' = << >>
                     /\ pc' = "AfterPass"
    /\ hist' = [hist EXCEPT !.nPasses = @ + 1, !.stopInPass = FALSE]
    /\ UNCHANGED <<cfg, prov, dryRun, os, op, nOps, thr, watcher>>

\* One turn of the loop: the flag is not set, the item is sorted
PassItem ==
    /\ pc = "Loop"
    /\ todo # << >>
    /\ ~stop_event
    /\ \E r \in {sort_item(cfg, fs, [stats EXCEPT !["processed"] = @ + 1], Head(todo),
                           << >>, dryRun, os)} :
          /\ fs' = r.fs
          /\ stats' = IF r.raised THEN [r.stats EXCEPT !["errors"] = @ + 1] ELSE r.stats
          /\ mtime' = Touched(cfg, fs, r.fs, mtime)
    /\ todo' = Tail(todo)
    /\ UNCHANGED <<cfg, prov, dryRun, os, op, nOps, thr, pc, stop_event, watcher, hist>>

\* The loop ends: nothing is left, or the flag is set (break)
PassLoopEnds ==
    /\ pc = "Loop"
    /\ todo = << >> \/ stop_event
    /\ todo' = << >>
    /\ pc' = "Sweep"
    /\ UNCHANGED <<cfg, prov, fs, stats, dryRun, os, op, nOps, thr,
                   stop_event, watcher, mtime, hist>>

\* process_source_directory after the loop: the sweep, unless stopped
PassSweep ==
    /\ pc = "Sweep"
    /\ \E g \in {IF ~stop_event /\ ~cfg.CLEANUP_MODE_ENABLED
                 THEN cleanup_empty_dirs(cfg, fs, cfg.SOURCE_DIR, dryRun) ELSE fs} :
          /\ fs' = g
          /\ mtime' = Touched(cfg, fs, g, mtime)
    /\ pc' = "AfterPass"
    /\ UNCHANGED <<cfg, prov, stats, dryRun, os, op, nOps, thr,
                   stop_event, watcher, todo, hist>>

\* start_watch_mode after a pass: it returns when the flag is set; after the
\* initial pass it makes the watcher.
AfterPass ==
    /\ pc = "AfterPass"
    /\ IF stop_event
       THEN pc' = "Stopped" /\ UNCHANGED watcher
       ELSE /\ pc' = "Waiting"
            /\ watcher' = IF watcher = None THEN DirectoryWatcher(cfg, fs, mtime)
                          ELSE watcher
    /\ UNCHANGED <<cfg, prov, fs, stats, dryRun, os, op, nOps, thr,
                   stop_event, mtime, todo, hist>>

\* stop_event.wait(timeout): true at once when the flag is set, false when
\* the interval has passed without it
Wait ==
    /\ pc = "Waiting"
    /\ pc' = IF stop_event THEN "Stopped" ELSE "Check"
    /\ UNCHANGED <<cfg, prov, fs, stats, dryRun, os, op, nOps, thr,
                   stop_event, watcher, mtime, todo, hist>>

\* watcher.check_for_changes()
CheckForChanges ==
    /\ pc = "Check"
    /\ \E r \in {check_for_changes(cfg, fs, watcher, mtime)} :
          /\ watcher' = r.watcher
          /\ pc' = IF r.changed THEN "CallPass" ELSE "Waiting"
    /\ UNCHANGED <<cfg, prov, fs, stats, dryRun, os, op, nOps, thr,
                   stop_event, mtime, todo, hist>>

\* signal_stop(), called from another thread while start_watch_mode runs
SignalStop ==
    /\ pc \notin {"Idle", "Stopped"}
    /\ ~hist.stopRequested
    /\ stop_event' = TRUE
    /\ hist' = [hist EXCEPT !.stopRequested = TRUE, !.stopAtPass = hist.nPasses,
                            !.stopInPass = pc \in {"Loop", "Sweep"}]
    /\ UNCHANGED <<cfg, prov, fs, stats, dryRun, os, op, nOps, thr,
                   pc, watcher, mtime, todo>>

\* A file is put into the source directory from outside
FileArrives ==
    /\ pc \notin {"Idle", "Stopped"}
    /\ hist.nArrivals < MaxArrivals
    /\ LET new == ArrivingFiles[hist.nArrivals + 1]
       IN /\ ~Exists(fs.files, PathOf(new))
          /\ fs' = [fs EXCEPT !.files = @ \cup {new}]
    /\ mtime' = mtime + 1
    /\ hist' = [hist EXCEPT !.nArrivals = @ + 1]
    /\ UNCHANGED <<cfg, prov, stats, dryRun, os, op, nOps, thr,
                   pc, stop_event, watcher, todo>>

NextWatch ==
    \/ StartWatchMode
    \/ ClearStopEvent
    \/ PassBegin
    \/ PassItem
    \/ PassLoopEnds
    \/ PassSweep
    \/ AfterPass
    \/ Wait
    \/ CheckForChanges
    \/ SignalStop
    \/ FileArrives

SpecWatch == InitWatch /\ [][NextWatch]_vars

\* C6: once signal_stop has been called after the initial pass began, no new
\* directory pass begins.
C6_NoPassAfterStop ==
    [][(hist.stopRequested /\ hist.stopAtPass >= 1)
       => hist'.nPasses = hist.nPasses]_vars

\* C7 as stated, its first part: start_watch always runs an initial pass, so
\* it has not returned without one.
C7_AlwaysInitialPass == pc = "Stopped" => hist.nPasses >= 1

\* C7 amended: with cleanup-in-place off, start_watch runs one initial pass
\* first; it enters the watch loop only if no stop was requested during that
\* pass; in the loop a pass starts only after a wait that elapsed with the
\* flag not set, and only if the source directory's mtime is strictly
\* greater than the recorded one.  With cleanup-in-place on it returns at
\* once and runs no pass.
C7_Lifecycle ==
    /\ [](pc \in {"Waiting", "Check"} => (hist.nPasses >= 1 /\ watcher # None))
    /\ [](watcher = None => hist.nPasses <= 1)
    /\ [](pc = "Stopped" => (cfg.CLEANUP_MODE_ENABLED <=> hist.nPasses = 0))
    /\ [][/\ (pc = "Idle" /\ pc' # "Idle")
             => pc' = IF cfg.CLEANUP_MODE_ENABLED THEN "Stopped" ELSE "Clear"
          /\ (pc = "AfterPass" /\ pc' = "Waiting") => ~hist.stopInPass
          /\ (pc # "Check" /\ pc' = "Check") => (pc = "Waiting" /\ ~stop_event)
          /\ (pc # "CallPass" /\ pc' = "CallPass")
             => \/ pc = "Clear" /\ hist.nPasses = 0
                \/ pc = "Check" /\ mtime > watcher.last_mtime
          /\ hist'.nPasses # hist.nPasses
             => (pc = "CallPass" /\ hist'.nPasses = hist.nPasses + 1)]_vars

\* C7 witness: the watcher has begun a second pass, after the initial pass, a
\* wait and a poll that saw a newer mtime.
C7_Witness ==
    /\ pc = "Loop"
    /\ hist.nPasses = 2
    /\ watcher # None
    /\ watcher.last_mtime = mtime
    /\ ~hist.stopRequested

(***************************************************************************)
(* Two engine instances at once (specification SpecConc): a background     *)
(* directory pass, and a manual-review operation (sort_item with an        *)
(* override name, or force_move_item) on an instance of its own, as the    *)
(* GUI starts them on separate threads.  They share the configuration and  *)
(* the filesystem.  Each instance, thr[t], stands at                       *)
(*   scan   before the scan of its pass                                    *)
(*   item   before its next item                                           *)
(*   check  in move_file_group, before the tests on the file at the head   *)
(*          of group (already there? target exists?)                       *)
(*   move   past those tests, before shutil.move of that file              *)
(*   done   at its end                                                     *)
(***************************************************************************)
MismatchedFolder == << << "src" >>, << "_Mismatched" >>, << "Movie" >> >>

\* The files a filesystem of SpecConc may start with
ConcFiles ==
    {File(SRC, << "Movie", "2019" >>, ".mkv", 1),
     File(SRC, << "Movie", "2019" >>, ".srt", 2),
     File(MismatchedFolder, << "Movie", "2019" >>, ".mkv", 14),
     File(MismatchedFolder, << "Movie", "2019" >>, ".srt", 15)}

Instance(kind, at, items) ==
    [kind |-> kind, pc |-> at, items |-> items, group |-> << >>, dest_dir |-> NoPath]

InitConc ==
    /\ cfg = DefaultConfig
    /\ dryRun = FALSE
    /\ os = NoFailure
    /\ \E S \in SUBSET ConcFiles :
          /\ Cardinality(S) <= MaxFiles
          /\ InitEngine(S)
          /\ \E item \in Primaries(InitialFs(S)) :
             \E kind \in {"sort_one", "force_move"} :
                thr = [pass |-> Instance("pass", "scan", << >>),
                       manual |-> Instance(kind, "item", << item >>)]
    /\ NoWatch

\* The pass begins: process_source_directory up to its loop
BeginPass(t) ==
    /\ thr[t].pc = "scan"
    /\ \E e \in {ensure_target_dirs(cfg, fs.dirs, dryRun, os)} :
          /\ fs' = [fs EXCEPT !.dirs = e.dirs]
          /\ \E order \in Orders(MediaFiles(cfg, fs')) :
                thr' = [thr EXCEPT ![t].pc = "item", ![t].items = order]
    /\ UNCHANGED <<watchVars, cfg, prov, stats, dryRun, os, op, nOps>>

\* What the instance decides for its next item: [move, dest_dir]
Decision(t, item) ==
    IF thr[t].kind = "force_move"
    THEN LET d == force_move_dest(cfg, item, << "Movie", "(2019)" >>, MOVIE, FALSE)
         IN [move |-> d # NoPath /\ item.dir \in fs.dirs, dest_dir |-> d]
    ELSE LET r == IF thr[t].kind = "sort_one"
                  THEN Route(cfg, fs, EmptyStats, item, << "Movie" >>, os)
                  ELSE Route(cfg, fs, ZeroStats, item, << >>, os)
         IN [move |-> r.move, dest_dir |-> IF r.move THEN r.dest_dir ELSE NoPath]

\* An instance takes its next item as far as the head of the loop of
\* move_file_group, or drops it
BeginItem(t) ==
    /\ thr[t].pc = "item"
    /\ IF thr[t].items = << >>
       THEN thr' = [thr EXCEPT ![t].pc = "done"] /\ UNCHANGED fs
       ELSE \E item \in {Head(thr[t].items)} :
            \E d \in {Decision(t, item)} :
            \E e \in {ensure_dir(fs.dirs, d.dest_dir, dryRun, os)} :
               IF d.move /\ e.ok
               THEN /\ fs' = [fs EXCEPT !.dirs = e.dirs]
                    /\ thr' = [thr EXCEPT
                                 ![t].pc = "check",
                                 ![t].group = << item >> \o find_sidecar_files(fs.files, item),
                                 ![t].dest_dir = d.dest_dir]
               ELSE /\ thr' = [thr EXCEPT ![t].items = Tail(@)]
                    /\ UNCHANGED fs
    /\ UNCHANGED <<watchVars, cfg, prov, stats, dryRun, os, op, nOps>>

\* move_file_group: the two tests on the file at the head of the group
CheckTarget(t) ==
    /\ thr[t].pc = "check"
    /\ IF thr[t].group = << >>
       THEN thr' = [thr EXCEPT ![t].pc = "item", ![t].items = Tail(@)]
       ELSE LET file_to_move == Head(thr[t].group)
                target == InDir(file_to_move, thr[t].dest_dir)
            IN IF file_to_move = target \/ Exists(fs.files, target)
               THEN thr' = [thr EXCEPT ![t].group = Tail(@)]
               ELSE thr' = [thr EXCEPT ![t].pc = "move"]
    /\ UNCHANGED <<watchVars, cfg, prov, fs, stats, dryRun, os, op, nOps>>

\* move_file_group: shutil.move of the file at the head of the group; it
\* raises, and is caught, when the file is no longer there
MoveFile(t) ==
    /\ thr[t].pc = "move"
    /\ LET file_to_move == Head(thr[t].group)
           target == InDir(file_to_move, thr[t].dest_dir)
       IN fs' = IF Exists(fs.files, file_to_move)
                THEN [fs EXCEPT !.files = shutil_move(fs.files, file_to_move, target)]
                ELSE fs
    /\ thr' = [thr EXCEPT ![t].pc = "check", ![t].group = Tail(@)]
    /\ UNCHANGED <<watchVars, cfg, prov, stats, dryRun, os, op, nOps>>

NextConc ==
    \/ BeginPass("pass")
    \/ \E t \in {"pass", "manual"} : BeginItem(t)
    \/ \E t \in {"pass", "manual"} : CheckTarget(t)
    \/ \E t \in {"pass", "manual"} : MoveFile(t)

SpecConc == InitConc /\ [][NextConc]_vars

\* C5: while a manual-review operation and a directory pass run at once on
\* two engine instances, no step of either loses or overwrites a file: the
\* files present before the step are present after it.
C5_NoFileLostConcurrently ==
    [][Ids(fs'.files) = Ids(fs.files)]_vars

(***************************************************************************)
(* sort_item on its own (specification SpecSort): one engine instance,     *)
(* new (stats is the empty dict) or after a pass (stats holds every key),  *)
(* under each fallback policy and each language-split setting.             *)
(***************************************************************************)
\* The configurations of SpecSort
SortConfigs ==
    {[DefaultConfig EXCEPT !.FALLBACK_SHOW_DESTINATION = p,
                           !.CLEANUP_MODE_ENABLED = b] :
        p \in {"ignore", "tv", "anime", "mismatched"}, b \in BOOLEAN}
    \cup {[DefaultConfig EXCEPT !.SPLIT_MOVIES_DIR = Root("split"),
                                !.LANGUAGES_TO_SPLIT = l,
                                !.CLEANUP_MODE_ENABLED = b] :
             l \in {{"fr"}, {"french"}, {"all"}}, b \in BOOLEAN}
    \cup {[DefaultConfig EXCEPT !.MISMATCHED_DIR = Root("review")],
          [DefaultConfig EXCEPT !.TV_SHOWS_DIR = NoPath,
                                !.FALLBACK_SHOW_DESTINATION = "tv"]}

\* The files a filesystem of SpecSort may start with
SortFiles ==
    {File(SRC, << "Movie", "2019" >>, ".mkv", 1),
     File(SRC, << "Movie", "2019" >>, ".srt", 2),
     File(SRC, << "Film", "2019" >>, ".mkv", 16),
     File(SRC, << "Show", "S02E05" >>, ".mkv", 6),
     File(SRC, << "Show", "S02E05" >>, ".srt", 17),
     File(SRC, << "Show", "S00E01" >>, ".mkv", 18),
     File(SRC, << "Movie", "2021" >>, ".mkv", 7),
     File(SRC, << "Mystery", "S02E05" >>, ".mkv", 19),
     File(SRC, << "Mystery", "S02E05" >>, ".srt", 20),
     File(SRC, << "[GRP]", "FRENCH" >>, ".mkv", 35)}

InitSort ==
    /\ cfg \in SortConfigs
    /\ dryRun = FALSE
    /\ os = NoFailure
    /\ \E S \in SUBSET SortFiles :
          /\ Cardinality(S) <= MaxFiles
          /\ prov = Catalogue
          /\ fs = InitialFs(S)
          /\ stats \in {EmptyStats, ZeroStats}
          /\ op = [name |-> "init"]
          /\ nOps = 0
    /\ NoWatch /\ NoThreads

SpecSort == InitSort /\ [][SortOne]_vars

\* The record sort_item routes item by: the classification it settles on,
\* validated
ValidatedInfo(item, override_name) ==
    The({validate_api_result(item, cl.term, cl.info) :
            cl \in {ClassifyItem(cfg, item, override_name)}})

\* The file at path p before the step is in directory d after it
LandsIn(p, d) ==
    \E g \in fs.files : PathOf(g) = p /\ [g EXCEPT !.dir = d] \in fs'.files

\* C11: sort_one routes every item whose validated kind is Unknown and whose
\* filename has no season marker to <mismatched_dir>/<display_name>, under
\* every fallback policy and every other setting; it never leaves it in place.
C11_UnknownMovieToMismatched ==
    [][(/\ op'.name = "sort_one"
        /\ ValidatedInfo(op'.item, op'.override_name).media_type = UNKNOWN
        /\ extract_season_info(op'.item.stem) = -1)
       => LandsIn(op'.item,
                  Join(get_mismatched_path(cfg),
                       get_folder_name(ValidatedInfo(op'.item, op'.override_name))))]_vars

\* The ISO 639-1 code of a lower-cased language name
LanguageCode(l) ==
    CASE l = "french" -> "fr" [] l = "english" -> "en"
      [] l = "japanese" -> "ja" [] OTHER -> l

\* A movie's language intersects the split set (a language is named by its
\* name or by its code), or the set contains "all" and the language is not
\* English
MatchesSplitSet(language, split) ==
    IF "all" \in split THEN "english" \notin LanguageSet(language)
    ELSE \E l \in LanguageSet(language) : l \in split \/ LanguageCode(l) \in split

\* sort_one sorted a Movie with the language split configured, outside
\* cleanup-in-place mode
SplitConfiguredMovieSorted ==
    /\ op'.name = "sort_one"
    /\ ValidatedInfo(op'.item, op'.override_name).media_type = MOVIE
    /\ cfg.MOVIES_ENABLED
    /\ cfg.SPLIT_MOVIES_DIR # NoPath /\ cfg.LANGUAGES_TO_SPLIT # {}
    /\ ~cfg.CLEANUP_MODE_ENABLED

\* C12: with a split-movies directory configured and cleanup-in-place off,
\* sort_one routes a Movie to <split dir>/<display_name> and counts it in
\* split_lang_movies exactly when its language intersects the split set (a
\* "French" record with LANGUAGES_TO_SPLIT = ["fr"] does) or the set
\* contains "all" and the language is not English; otherwise the movie goes
\* to the standard movies directory.
C12_FrenchMovieToSplitDir ==
    [][SplitConfiguredMovieSorted
       => LET info == ValidatedInfo(op'.item, op'.override_name)
              split == MatchesSplitSet(info.language, cfg.LANGUAGES_TO_SPLIT)
              base == IF split THEN cfg.SPLIT_MOVIES_DIR ELSE cfg.MOVIES_DIR
              key == IF split THEN "split_lang_movies" ELSE "movies"
          IN /\ LandsIn(op'.item, Join(base, get_folder_name(info)))
             /\ Stat(stats', key) = Stat(stats, key) + 1]_vars

\* f"Season {NN:02d}" with NN the season number of the filename, 1 only when
\* the filename has none
SeasonFolderOf(stem) ==
    SeasonFolder(IF extract_season_info(stem) = -1 THEN 1
                 ELSE extract_season_info(stem))

\* The destination of an item under base: base/display_name for a movie
\* kind, base/display_name/Season NN for a series kind
DestinationUnder(base, info, stem) ==
    IF info.media_type \in {MOVIE, ANIME_MOVIE}
    THEN Join(base, get_folder_name(info))
    ELSE Append(Join(base, get_folder_name(info)), SeasonFolderOf(stem))

\* sort_one moved the primary file of an item of a known, enabled kind
KnownKindMoved ==
    /\ op'.name = "sort_one"
    /\ ValidatedInfo(op'.item, op'.override_name).media_type # UNKNOWN
    /\ TypeEnabled(cfg, ValidatedInfo(op'.item, op'.override_name).media_type)
    /\ ~ \E g \in fs'.files : PathOf(g) = op'.item

\* C13: when sort_one moves an item of a known, enabled kind, the primary
\* file and all its sidecars land in one directory, <base_dir>/<display_name>
\* for a movie kind and <base_dir>/<display_name>/Season NN for a series
\* kind, NN being the season number of the filename (0 included) and 01 only
\* when the filename has none.
C13_GroupLandsInSeasonFolder ==
    [][KnownKindMoved
       => LET info == ValidatedInfo(op'.item, op'.override_name)
              group == {op'.item} \cup
                       {find_sidecar_files(fs.files, op'.item)[i] :
                           i \in 1..Len(find_sidecar_files(fs.files, op'.item))}
          IN \E base \in {KindDir(cfg, info.media_type), cfg.SPLIT_MOVIES_DIR,
                          op'.item.dir} :
                \A p \in group :
                    LandsIn(p, DestinationUnder(base, info, op'.item.stem))]_vars

\* sort_one sorted an item whose validated kind is Unknown and whose
\* filename carries a season marker, outside cleanup-in-place mode
UnknownSeriesSorted ==
    /\ op'.name = "sort_one"
    /\ ValidatedInfo(op'.item, op'.override_name).media_type = UNKNOWN
    /\ extract_season_info(op'.item.stem) # -1
    /\ ~cfg.CLEANUP_MODE_ENABLED

\* The directory the fallback policy names
FallbackBase ==
    CASE cfg.FALLBACK_SHOW_DESTINATION = "tv" -> cfg.TV_SHOWS_DIR
      [] cfg.FALLBACK_SHOW_DESTINATION = "anime" -> cfg.ANIME_SERIES_DIR
      [] OTHER -> get_mismatched_path(cfg)

\* C14: for an item whose validated kind is Unknown and whose filename has a
\* season marker, sort_one applies the fallback policy: under "ignore" the
\* filesystem is left as it is; under "tv", "anime" or "mismatched" (the
\* policy's directory being configured) the primary file and its sidecars
\* are moved to <that directory>/<display_name>/Season NN.
C14_FallbackPolicyApplied ==
    [][UnknownSeriesSorted
       => LET info == ValidatedInfo(op'.item, op'.override_name)
              group == {op'.item} \cup
                       {find_sidecar_files(fs.files, op'.item)[i] :
                           i \in 1..Len(find_sidecar_files(fs.files, op'.item))}
          IN IF cfg.FALLBACK_SHOW_DESTINATION = "ignore" THEN fs' = fs
             ELSE FallbackBase # NoPath
                  => \A p \in group :
                        LandsIn(p, DestinationUnder(FallbackBase, info,
                                                    op'.item.stem))]_vars

(***************************************************************************)
(* classify_media on its own (specification SpecClassify): one title, and  *)
(* every combination of the three providers' answers for it (nothing, a    *)
(* request failure, an unexpectedly shaped response, a record), under each *)
(* choice of primary provider.  A provider that had nothing may start to   *)
(* fail.                                                                   *)
(***************************************************************************)
ClassifiedName == << "Movie", "2019" >>
ClassifiedTitle == clean_for_search(ClassifiedName, CUSTOM_STRINGS_TO_REMOVE)

\* The names classify_media is called with: the title's, and one that is
\* nothing but junk, whose cleaned form is empty
ClassifiedNames == {ClassifiedName, << "[GRP]", "FRENCH" >>}

\* What each provider may answer for the title: nothing, a failure, or a
\* record; among the records an anime without a season year ("seasonYear":
\* null), a series with a year range ("2019-2021" stands for the range as
\* OMDb writes it, with an en dash) and a title with no release date
Answers ==
    [anilist |-> {NoData, [st |-> "error"], [st |-> "crash"],
                  AnilistData("MOVIE", << "Movie" >>, << "Movie" >>, "2019", "Action"),
                  AnilistData("TV", << "Movie" >>, << "Movie" >>, "2019", "Action"),
                  AnilistData("TV", << "Movie" >>, << "Movie" >>, "null", "Action")},
     omdb |-> {NoData, [st |-> "error"], [st |-> "crash"],
               OmdbData("movie", << "Movie" >>, "2019", "English", "Drama", "USA"),
               OmdbData("movie", << "Movie" >>, "2019", "Japanese", "Animation",
                        "Japan"),
               OmdbData("series", << "Movie" >>, "2019-2021", "English", "Drama",
                        "USA")},
     tmdb |-> {NoData, [st |-> "error"], [st |-> "crash"],
               TmdbData(TRUE, << "Movie" >>, << >>, "2019-05-01", "", "English",
                        "Drama"),
               TmdbData(FALSE, << >>, << "Movie" >>, "", "2019-05-01", "English",
                        "Animation"),
               TmdbData(TRUE, << "Movie" >>, << >>, "", "", "English", "Drama")}]

\* The configurations of SpecClassify: the primary provider, whether the
\* secondary provider's key is set, whether an anime kind is enabled
ClassifyConfigs ==
    {[DefaultConfig EXCEPT !.API_PROVIDER = p,
                           !.OMDB_KEY_SET = (p = "omdb" \/ k),
                           !.TMDB_KEY_SET = (p = "tmdb" \/ k),
                           !.ANIME_MOVIES_ENABLED = a,
                           !.ANIME_SERIES_ENABLED = a] :
        p \in {"omdb", "tmdb"}, k \in BOOLEAN, a \in BOOLEAN}

InitClassify ==
    /\ cfg \in ClassifyConfigs
    /\ \E a \in Answers.anilist, o \in Answers.omdb, t \in Answers.tmdb :
          prov = [anilist |-> (ClassifiedTitle :> a),
                  omdb |-> (ClassifiedTitle :> o),
                  tmdb |-> (ClassifiedTitle :> t)]
    /\ fs = InitialFs({})
    /\ stats = EmptyStats
    /\ dryRun = FALSE
    /\ os = NoFailure
    /\ op = [name |-> "init"]
    /\ nOps = 0
    /\ NoWatch /\ NoThreads

\* What a classify_media call gives now: whether it raises, the record it
\* returns when it does not, and the providers it consults
ClassificationOf(name) ==
    LET q == QueriesOf(cfg, clean_for_search(name, CUSTOM_STRINGS_TO_REMOVE))
        raised == classify_raises(cfg, name)
    IN [raised |-> raised,
        info |-> IF raised THEN MediaInfo(<< >>, "", UNKNOWN, "", "")
                 ELSE classify_media(cfg, name, CUSTOM_STRINGS_TO_REMOVE),
        consulted |-> [i \in 1..Len(q) |-> q[i][1]]]

Classification == ClassificationOf(ClassifiedName)

\* MediaClassifier.classify_media(name, custom_strings)
ClassifyMedia ==
    /\ nOps < MaxOps
    /\ nOps' = nOps + 1
    /\ \E name \in ClassifiedNames :
          op' = [name |-> "classify_media", input |-> name,
                 out |-> ClassificationOf(name)]
    /\ UNCHANGED << cfg, prov, fs, stats, dryRun, os >>
    /\ UNCHANGED watchVars /\ UNCHANGED thr

\* A provider that had nothing for the title now fails: its request fails
\* (timeout, transport error, non-2xx status) or its response has a shape the
\* client does not expect
ProviderFails ==
    /\ \E p \in {"anilist", "omdb", "tmdb"}, st \in {"error", "crash"} :
          /\ prov[p][ClassifiedTitle].st = "none"
          /\ prov' = [prov EXCEPT ![p] = (ClassifiedTitle :> [st |-> st])]
    /\ UNCHANGED << cfg, fs, stats, dryRun, os, op, nOps >>
    /\ UNCHANGED watchVars /\ UNCHANGED thr

NextClassify == ClassifyMedia \/ ProviderFails

SpecClassify == InitClassify /\ [][NextClassify]_vars

\* The general-purpose provider's answer classify_media ends up with: the
\* primary's record, or the secondary's when the primary gave nothing and the
\* secondary is available; provider "none" when neither gave a record
GeneralResult ==
    LET primary == cfg.API_PROVIDER
        secondary == IF primary = "omdb" THEN "tmdb" ELSE "omdb"
        first == Lookup(prov[primary], ClassifiedTitle)
        second == Lookup(prov[secondary], ClassifiedTitle)
    IN IF first.st = "data" THEN [provider |-> primary, data |-> first]
       ELSE IF /\ first.st \in {"none", "error"}
               /\ KeyValid(cfg, secondary)
               /\ second.st = "data"
            THEN [provider |-> secondary, data |-> second]
       ELSE [provider |-> "none", data |-> NoData]

\* The genre or country fields of a general provider's record indicate
\* animation or Japan
IndicatesAnime(r) ==
    IF r.provider = "omdb"
    THEN IsAnimation(r.data.Genre) \/ IsJapan(r.data.Country)
    ELSE IsAnimation(r.data.genres)

\* The anime provider and a general provider both return a record, and the
\* general one does not indicate animation or Japan
AnimeMatchOfNonAnimeTitle ==
    /\ cfg.ANIME_MOVIES_ENABLED \/ cfg.ANIME_SERIES_ENABLED
    /\ Lookup(prov.anilist, ClassifiedTitle).st = "data"
    /\ GeneralResult.provider # "none"
    /\ ~IndicatesAnime(GeneralResult)

\* C15: whenever the anime provider returns a result and a general-purpose
\* provider (the primary, or the secondary answering in its place; OMDb or
\* TMDB) also returns one whose genre and country fields do not indicate
\* animation or Japan, classify_media returns the general provider's
\* classification, a Movie or a TvSeries, and never an anime kind.
C15_GeneralProviderWinsForNonAnime ==
    [][(nOps' = nOps + 1 /\ op'.input = ClassifiedName /\ AnimeMatchOfNonAnimeTitle)
       => /\ ~op'.out.raised
          /\ op'.out.info = classify_from_main_api(GeneralResult.data,
                                                   GeneralResult.provider)
          /\ op'.out.info.media_type \in {MOVIE, TV_SERIES}]_vars

\* C16: a provider failure of any kind (a failed request, or a response of
\* an unexpected shape) is the same as no result from that provider:
\* classify_media returns the record it returned when the provider had
\* nothing, consults the same providers, and does not raise.
C16_FailureIsNoResult ==
    [][(\E p \in {"anilist", "omdb", "tmdb"} :
           /\ prov[p][ClassifiedTitle].st = "none"
           /\ prov'[p][ClassifiedTitle].st \in {"error", "crash"})
       => Classification' = Classification]_vars

\* C17: when process_directory is invoked with an invalid configuration (the
\* source directory missing, or a required target directory that cannot be
\* created), the invocation processes no item, moves no file and creates no
\* directory: the filesystem is left exactly as it was.
C17_InvalidInvocationChangesNothing ==
    [][(op'.name = "process_directory" /\ nOps' = nOps + 1 /\ ~op'.valid)
       => /\ fs' = fs
          /\ op'.log = << >>
          /\ op'.total = 0
          /\ stats'["processed"] = 0]_vars

\* C19: in cleanup-in-place mode, a pass that follows a completed pass finds
\* every file the first pass placed already in its structured folder: it
\* moves nothing, creates no deeper folder, and counts each file again as a
\* success in its kind bucket.
C19_CleanupInPlaceSettles ==
    [][(/\ cfg.CLEANUP_MODE_ENABLED /\ ~dryRun /\ os = NoFailure
        /\ op.name = "process_directory" /\ op.valid /\ ~op.stop
        /\ op'.name = "process_directory" /\ nOps' = nOps + 1 /\ ~op'.stop)
       => /\ fs' = fs
          /\ \A k \in {"movies", "tv", "anime_movies", "anime_series"} :
                stats'[k] = stats[k]]_vars

(***************************************************************************)
(* Directory passes over a source tree with nested folders and folders     *)
(* that are empty from the start (specification SpecTree).                 *)
(***************************************************************************)
PackDisc == << << "src" >>, << "Pack" >>, << "Disc" >> >>

\* The files a filesystem of SpecTree may start with: a movie two folders
\* down, a file that is neither media nor sidecar beside its folder, a movie
\* already under the Mismatched directory, a movie the validator rejects
TreeFiles ==
    {File(PackDisc, << "Movie", "2019" >>, ".mkv", 31),
     File(Append(SRC, << "Pack" >>), << "cover" >>, ".jpg", 32),
     File(<< << "src" >>, << "_Mismatched" >>, << "Old" >> >>, << "Movie", "2019" >>, ".mkv", 33),
     File(SRC, << "Movie", "2021" >>, ".mkv", 34)}

\* The directories that may exist, empty, when a run of SpecTree starts
TreeDirs ==
    {<< << "src" >>, << "Empty" >>, << "Inner" >> >>,
     << << "src" >>, << "_Mismatched" >> >>,
     << << "src" >>, << "_Mismatched" >>, << "Gone" >> >>}

InitTree ==
    /\ cfg \in {[DefaultConfig EXCEPT !.CLEANUP_MODE_ENABLED = b] : b \in BOOLEAN}
    /\ dryRun \in BOOLEAN
    /\ os = NoFailure
    /\ \E S \in SUBSET TreeFiles, E \in SUBSET TreeDirs :
          /\ Cardinality(S) <= MaxFiles
          /\ prov = Catalogue
          /\ fs = [files |-> S,
                   dirs |-> InitialFs(S).dirs \cup UNION {Ancestors(d) : d \in E}]
          /\ stats = EmptyStats
          /\ op = [name |-> "init"]
          /\ nOps = 0
    /\ NoWatch /\ NoThreads

SpecTree == InitTree /\ [][ProcessDirectory]_vars

\* Directory d holds no file and no directory in the filesystem f
IsEmptyDir(f, d) ==
    /\ ~\E g \in f.files : IsPrefix(d, g.dir)
    /\ ~\E e \in f.dirs : e # d /\ IsPrefix(d, e)

\* A directory the sweep may remove: below the source root, and not the
\* Mismatched directory
Sweepable(d) ==
    /\ IsPrefix(cfg.SOURCE_DIR, d) /\ d # cfg.SOURCE_DIR
    /\ d # get_mismatched_path(cfg)

TitleWordToks == {"Title", "Name", "2019", "1080"}

InitClean ==
    /\ \E n \in 1..MaxStem : \E words \in [1..n -> TitleWordToks] :
       \E year \in {"2019", "2021"}, res \in ResolutionToks,
          source \in SourceToks, codec \in CodecToks :
          op = [name |-> "init", words |-> words, year |-> year,
                input |-> words \o << year, res, source, codec >>]
    /\ cfg = DefaultConfig
    /\ prov = Catalogue
    /\ fs = InitialFs({})
    /\ stats = EmptyStats
    /\ dryRun = FALSE
    /\ os = NoFailure
    /\ nOps = 0
    /\ NoWatch /\ NoThreads

\* TitleCleaner.clean_for_search and TitleCleaner.extract_year applied to
\* the name
CleanName ==
    /\ op.name = "init"
    /\ op' = [op EXCEPT
                 !.name = "clean",
                 !.words = clean_for_search(op.input, CUSTOM_STRINGS_TO_REMOVE),
                 !.year = extract_year(op.input)]
    /\ nOps' = nOps + 1
    /\ UNCHANGED << cfg, prov, fs, stats, dryRun, os >>
    /\ UNCHANGED watchVars /\ UNCHANGED thr

SpecClean == InitClean /\ [][CleanName]_vars

\* C20: for every name made of dot-separated title words, then a plausible
\* four-digit year, then resolution, source and codec-group tokens,
\* clean_for_search returns the title words and extract_year returns the
\* year token.
C20_CleanerRecoversTitleAndYear ==
    [][op'.name = "clean"
       => /\ op'.words = op.words
          /\ op'.year = op.year]_vars

\* C21: move_group attempts every file of the group even after an earlier
\* one failed to move; it reports failure when the destination directory
\* cannot be created; otherwise its result follows the primary file: it
\* reports success whenever the primary was relocated or was already at the
\* destination, even if a sidecar failed to move.
C21_ResultFollowsPrimary ==
    [][(op'.name = "move_group" /\ ~op'.raised)
       => LET group == op'.file_group
              dest_dir == op'.dest_dir
              creatable == ensure_dir(fs.dirs, dest_dir, dryRun, os).ok
          IN /\ ~creatable => ~op'.ok /\ fs' = fs
             /\ (creatable /\ ~dryRun)
                => \A i \in 1..Len(group) :
                      (/\ ~Exists(fs.files, InDir(group[i], dest_dir))
                       /\ FileAt(fs.files, group[i]).id \notin os.badMoves)
                      => AtDest(group[i], dest_dir)
             /\ (creatable /\ AtDest(group[1], dest_dir)) => op'.ok]_vars

\* The providers one classify_media call for clean_name has to consult, in
\* order: the anime provider if an anime kind is enabled, the primary
\* general provider, and the secondary one if and only if the primary
\* returned nothing and the secondary's key is set
ExpectedQueries(clean_name) ==
    LET primary == cfg.API_PROVIDER
        secondary == IF primary = "omdb" THEN "tmdb" ELSE "omdb"
    IN (IF cfg.ANIME_MOVIES_ENABLED \/ cfg.ANIME_SERIES_ENABLED
        THEN << "anilist" >> ELSE << >>)
       \o << primary >>
       \o (IF /\ Lookup(prov[primary], clean_name).st \in {"none", "error"}
              /\ KeyValid(cfg, secondary)
           THEN << secondary >> ELSE << >>)

\* C22: in a classify_media call no provider is queried when the cleaned
\* name is empty (Unknown with the raw name as title is returned); otherwise
\* the anime provider is queried first and only if an anime kind is enabled,
\* the primary general provider next, always, and the secondary last, if and
\* only if the primary returned nothing and the secondary's key is set; the
\* secondary's record is read in the secondary's own schema.
C22_QueryOrder ==
    [][(nOps' = nOps + 1)
       => LET clean_name == clean_for_search(op'.input, CUSTOM_STRINGS_TO_REMOVE)
              secondary == IF cfg.API_PROVIDER = "omdb" THEN "tmdb" ELSE "omdb"
              second == Lookup(prov[secondary], clean_name)
          IN IF clean_name = << >>
             THEN /\ op'.out.consulted = << >>
                  /\ op'.out.info = MediaInfo(op'.input, "", UNKNOWN, "", "")
             ELSE /\ op'.out.consulted = ExpectedQueries(clean_name)
                  /\ (/\ ~op'.out.raised
                      /\ Lookup(prov.anilist, clean_name).st # "data"
                      /\ \E i \in 1..Len(op'.out.consulted) : op'.out.consulted[i] = secondary
                      /\ second.st = "data")
                     => op'.out.info = classify_from_main_api(second, secondary)]_vars

\* sort_one sorted an item whose validated kind is Unknown and for which
\* neither a title (the title cleans to nothing) nor a year was salvaged
NothingSalvaged ==
    /\ op'.name = "sort_one"
    /\ ValidatedInfo(op'.item, op'.override_name).media_type = UNKNOWN
    /\ ValidatedInfo(op'.item, op'.override_name).year = ""
    /\ clean_for_search(ValidatedInfo(op'.item, op'.override_name).title,
                        CUSTOM_STRINGS_TO_REMOVE) = << >>

\* C23: when the validated record has kind Unknown and neither a usable
\* title nor a year could be salvaged, sort_one counts the item in `unknown`
\* only and stops: no file is moved and no directory is created.
C23_NothingSalvagedStaysPut ==
    [][NothingSalvaged
       => /\ fs' = fs
          /\ Stat(stats', "unknown") = Stat(stats, "unknown") + 1
          /\ \A k \in StatKeys \ {"unknown"} : Stat(stats', k) = Stat(stats, k)]_vars

(***************************************************************************)
(* reorganize_folder_structure step by step, with a manual-review          *)
(* operation of another engine instance built over the same Config object  *)
(* (specification SpecReorg).  pc is "Idle" when no reorganization is in   *)
(* progress.                                                               *)
(***************************************************************************)
\* The library folder that is reorganized
ReorgTarget == Root("movies")

\* The files a filesystem of SpecReorg may start with: two movies lying
\* loose in the library, one file waiting in the Mismatched directory
ReorgFiles ==
    {File(ReorgTarget, << "Movie", "2019" >>, ".mkv", 36),
     File(ReorgTarget, << "Film", "2019" >>, ".mkv", 37),
     File(<< << "src" >>, << "_Mismatched" >>, << "Movie" >> >>, << "Movie", "2019" >>, ".mkv", 38)}

InitReorg ==
    /\ cfg = DefaultConfig
    /\ dryRun \in BOOLEAN
    /\ os = NoFailure
    /\ \E S \in SUBSET ReorgFiles :
          /\ S # {}
          /\ Cardinality(S) <= MaxFiles
          /\ InitEngine(S)
    /\ NoWatch /\ NoThreads

\* reorganize_folder_structure, up to the call of process_source_directory:
\* the Config object is overridden for the task
ReorganizeBegin ==
    /\ pc = "Idle"
    /\ nOps < MaxOps
    /\ pc' = "Reorganizing"
    /\ cfg' = [cfg EXCEPT !.SOURCE_DIR = ReorgTarget, !.CLEANUP_MODE_ENABLED = TRUE]
    /\ op' = [name |-> "reorganize_begin", original_source_dir |-> cfg.SOURCE_DIR,
              original_cleanup_mode |-> cfg.CLEANUP_MODE_ENABLED]
    /\ nOps' = nOps + 1
    /\ UNCHANGED << prov, fs, stats, dryRun, os, thr >>
    /\ UNCHANGED << stop_event, watcher, mtime, todo, hist >>

\* ... its call of process_source_directory
ReorganizePass ==
    /\ pc = "Reorganizing"
    /\ \E order \in ScanOrders(cfg, fs, dryRun, os) :
       \E r \in {process_source_directory(cfg, fs, order, -1, dryRun, os)} :
          /\ fs' = r.fs
          /\ stats' = r.stats
    /\ pc' = "Restoring"
    /\ UNCHANGED << cfg, prov, dryRun, os, op, nOps, thr >>
    /\ UNCHANGED << stop_event, watcher, mtime, todo, hist >>

\* ... and its finally block, which puts the two fields back
ReorganizeEnd ==
    /\ pc = "Restoring"
    /\ pc' = "Idle"
    /\ cfg' = [cfg EXCEPT !.SOURCE_DIR = op.original_source_dir,
                          !.CLEANUP_MODE_ENABLED = op.original_cleanup_mode]
    /\ op' = [name |-> "reorganize"]
    /\ UNCHANGED << prov, fs, stats, dryRun, os, nOps, thr >>
    /\ UNCHANGED << stop_event, watcher, mtime, todo, hist >>

\* App.reprocess_selected_file: sort_item with a corrected name, on a new
\* MediaSorter over the shared Config, for a file of the Mismatched folder
ManualReprocess ==
    /\ op.name # "manual_sort"
    /\ \E item \in {p \in Primaries(fs) : IsPrefix(get_mismatched_path(DefaultConfig), p.dir)} :
       \E r \in {sort_item(cfg, fs, EmptyStats, item, << "Movie" >>, dryRun, os)} :
          /\ fs' = r.fs
          /\ op' = [name |-> "manual_sort", item |-> item,
                    source_dir |-> cfg.SOURCE_DIR,
                    cleanup_mode |-> cfg.CLEANUP_MODE_ENABLED,
                    original_source_dir |->
                        IF pc = "Idle" THEN cfg.SOURCE_DIR ELSE op.original_source_dir,
                    original_cleanup_mode |->
                        IF pc = "Idle" THEN cfg.CLEANUP_MODE_ENABLED
                        ELSE op.original_cleanup_mode]
    /\ UNCHANGED << cfg, prov, stats, dryRun, os, nOps, thr >>
    /\ UNCHANGED watchVars

NextReorg == ReorganizeBegin \/ ReorganizePass \/ ReorganizeEnd \/ ManualReprocess

SpecReorg == InitReorg /\ [][NextReorg]_vars

\* C24: the configuration is never mutated while a run is in progress:
\* between the start and the end of an engine operation no configuration
\* field changes value, so another engine instance sharing the Config
\* object always observes the configured source directory and cleanup flag.
C24_ConfigurationFixedDuringRun ==
    [][/\ (pc # "Idle" \/ pc' # "Idle") => cfg' = cfg
       /\ (op'.name = "manual_sort" /\ op.name # "manual_sort")
          => /\ op'.source_dir = DefaultConfig.SOURCE_DIR
             /\ op'.cleanup_mode = DefaultConfig.CLEANUP_MODE_ENABLED]_vars

\* A year as the record's field allows it: absent, or exactly four digits
WellFormedYear(year) == year = "" \/ year \in {DigitsOf(t) : t \in DOMAIN FourDigitToks}

\* C25: every record classify_media returns, for every provider answer
\* (anime records without a season year, records with a year range and
\* records with no release date included), has a year that is absent or a
\* string of exactly four digits.
C25_YearAbsentOrFourDigits ==
    [][(nOps' = nOps + 1 /\ ~op'.out.raised) => WellFormedYear(op'.out.info.year)]_vars

\* The outcome counters of a pass, added up
OutcomeTotal(s) ==
    Stat(s, "movies") + Stat(s, "tv") + Stat(s, "anime_movies") + Stat(s, "anime_series")
    + Stat(s, "split_lang_movies") + Stat(s, "unknown") + Stat(s, "errors")

\* C26: a directory pass starts its counters at 0, so that at its end every
\* counter is present and non-negative, `processed` counts the items of this
\* pass only, and, each item contributing to at most one outcome counter,
\* movies + tv + anime_movies + anime_series + split_lang_movies + unknown
\* + errors <= processed.
C26_StatisticsInvariant ==
    [][(op'.name = "process_directory" /\ nOps' = nOps + 1)
       => /\ DOMAIN stats' = StatKeys
          /\ \A k \in StatKeys : stats'[k] >= 0
          /\ stats'.processed <= op'.total
          /\ OutcomeTotal(stats') <= stats'.processed]_vars

\* C27: move_group never separates a sidecar from its primary: a sidecar is
\* relocated to the destination only if the primary of its group was
\* relocated in the same call or was already there; when the primary is
\* skipped (a same-named file exists at the destination) or its move fails,
\* its sidecars stay next to it.
C27_SidecarFollowsPrimary ==
    [][op'.name = "move_group"
       => LET group == op'.file_group
              dest_dir == op'.dest_dir
          IN \A i \in 2..Len(group) :
                (group[i].dir # dest_dir /\ AtDest(group[i], dest_dir))
                => AtDest(group[1], dest_dir)]_vars

(***************************************************************************)
(* Directory passes under every combination of the kinds' enable flags and *)
(* every fallback policy (specification SpecFlags).                        *)
(***************************************************************************)
FlagConfigs ==
    {[DefaultConfig EXCEPT !.FALLBACK_SHOW_DESTINATION = p,
                           !.MOVIES_ENABLED = m,
                           !.TV_SHOWS_ENABLED = t,
                           !.ANIME_MOVIES_ENABLED = a,
                           !.ANIME_SERIES_ENABLED = a] :
        p \in {"ignore", "tv", "anime", "mismatched"},
        m \in BOOLEAN, t \in BOOLEAN, a \in BOOLEAN}

\* The files a source directory of SpecFlags may hold: a movie and a series
\* the provider knows, a movie whose year conflicts with its record and a
\* series the provider does not know
FlagFiles == {f \in SortFiles : f.id \in {1, 6, 7, 19}}

InitFlags ==
    /\ cfg \in FlagConfigs
    /\ dryRun = FALSE
    /\ os = NoFailure
    /\ \E S \in SUBSET FlagFiles :
          /\ S # {}
          /\ Cardinality(S) <= MaxFiles
          /\ InitEngine(S)
    /\ NoWatch /\ NoThreads

SpecFlags == InitFlags /\ [][ProcessDirectory]_vars

\* The destination directories of the kinds whose enable flag is off
DisabledKindDirs ==
    (IF cfg.MOVIES_ENABLED THEN {} ELSE {cfg.MOVIES_DIR})
    \cup (IF cfg.TV_SHOWS_ENABLED THEN {} ELSE {cfg.TV_SHOWS_DIR})
    \cup (IF cfg.ANIME_MOVIES_ENABLED THEN {} ELSE {cfg.ANIME_MOVIES_DIR})
    \cup (IF cfg.ANIME_SERIES_ENABLED THEN {} ELSE {cfg.ANIME_SERIES_DIR})

\* C28: a directory pass never moves a file into the destination directory
\* of a kind whose enable flag is off, under every configuration and every
\* fallback policy.
C28_NothingLandsInDisabledKind ==
    [][(op'.name = "process_directory" /\ nOps' = nOps + 1)
       => \A g \in fs'.files \ fs.files :
             \A d \in DisabledKindDirs : ~IsPrefix(d, g.dir)]_vars

(***************************************************************************)
(* Watch mode with its thread scheduled (specification SpecWatchFair): the *)
(* thread running start_watch_mode keeps taking steps; a wait ends when    *)
(* its interval has passed.  Stops and arrivals come from outside and are  *)
(* not forced.                                                             *)
(***************************************************************************)
WatchThread ==
    \/ ClearStopEvent
    \/ PassBegin
    \/ PassItem
    \/ PassLoopEnds
    \/ PassSweep
    \/ AfterPass
    \/ Wait
    \/ CheckForChanges

SpecWatchFair == SpecWatch /\ WF_vars(WatchThread)

\* The i-th arriving file has arrived and still lies in the source root
AwaitsHandling(i) ==
    /\ hist.nArrivals >= i
    /\ \E g \in fs.files : g.id = ArrivingFiles[i].id /\ g.dir = cfg.SOURCE_DIR

\* C29: while watch mode runs and no stop is signalled, every media file
\* that appears in the source directory root is eventually handled by a
\* directory pass (which moves it out of the root), whenever it arrives,
\* also during the initial pass or a later one, after the pass has scanned.
C29_ArrivalEventuallyHandled ==
    \A i \in 1..Len(ArrivingFiles) :
       AwaitsHandling(i) ~> (~AwaitsHandling(i) \/ hist.stopRequested)

\* The watch thread is outside a directory pass
Quiet == pc \in {"Idle", "Waiting", "Check", "Stopped"}

\* C30: watch mode reaches quiescence.  Only the initial pass and, for each
\* change made to the source directory from outside, the pass that change
\* triggers and at most one further pass caused by the engine's own moves
\* and directory removals are run (a pass that moves nothing causes none);
\* once the outside changes have ended the thread stays outside a pass,
\* every poll reporting no change.
C30_WatchReachesQuiescence ==
    /\ [](hist.nPasses <= 1 + 2 * hist.nArrivals)
    /\ <>[]Quiet

\* C30 witness: a file arrived during the wait, a pass moved it out of the
\* source root, the pass caused by that move has run, and now the recorded
\* modification time is the directory's: three passes, none pending
C30_Witness ==
    /\ hist.nArrivals = 1 /\ hist.nPasses = 3
    /\ ~AwaitsHandling(1)
    /\ ~hist.stopRequested
    /\ pc = "Waiting"
    /\ watcher # None /\ watcher.last_mtime = mtime

=============================================================================
